---- MODULE Spec2Model ----
(***************************************************************************)
(* The web backend of TerrariaSteamDeckServer: the request handlers that   *)
(* control the server process (start / stop / restart), restore backups    *)
(* and create / delete worlds, as a bag of handlers in flight (Flask's     *)
(* development server runs each request on a thread of its own) over a     *)
(* shared filesystem and one managed server process.                       *)
(* The specifications after Spec serve one request after the other, each   *)
(* over the routes of one concern (backups, world names, logs, external    *)
(* commands); SpecFunctions and SpecSearch apply the functions that read   *)
(* nothing but their arguments to arguments drawn from bounded sets.       *)
(*                                                                         *)
(* Text is a sequence of one-character strings, so that the code's         *)
(* re.sub, str.lower, str.strip and substring tests are computed.          *)
(***************************************************************************)
EXTENDS Integers, Sequences, FiniteSets, Bags, TLC

\* ------------------------------------------------------------------ bounds
\* Requests accepted in one behaviour. app.run() serves each request on a
\* thread of its own, so all of them can be in their handlers at once.
MaxRequests == 2
\* The longest string given to the sanitization on its own.
MaxNameLen == 3
\* The most files in the backup directory when it is listed on its own.
MaxBackups == 3
\* The most lines of a short log file (a file longer than the cap on the
\* window is read as well).
MaxLines == 4
\* The most lines of a log file that is searched.
MaxSearchLines == 2
\* The most requests that pass the authentication.
MaxPassed == 1
\* The most pieces (words, blanks, line ends) of a `supervisorctl status` output.
MaxOutput == 7

\* -------------------------------------------------------------------- text
UPPER == <<"A", "B", "C", "D", "E", "F", "G", "H", "I", "J", "K", "L", "M", "N", "O", "P", "Q", "R", "S", "T", "U", "V", "W", "X", "Y", "Z">>
LOWER == <<"a", "b", "c", "d", "e", "f", "g", "h", "i", "j", "k", "l", "m", "n", "o", "p", "q", "r", "s", "t", "u", "v", "w", "x", "y", "z">>
DIGITS == <<"0", "1", "2", "3", "4", "5", "6", "7", "8", "9">>

Range(s) == {s[i] : i \in 1..Len(s)}

\* str.lower()
LowerChar(c) ==
    IF \E i \in 1..Len(UPPER) : UPPER[i] = c
    THEN LOWER[CHOOSE i \in 1..Len(UPPER) : UPPER[i] = c]
    ELSE c
Lower(s) == [i \in 1..Len(s) |-> LowerChar(s[i])]

\* needle in hay
Contains(needle, hay) ==
    \E i \in 0..(Len(hay) - Len(needle)) :
        SubSeq(hay, i + 1, i + Len(needle)) = needle

\* str.strip()
IsSpace(c) == c \in {" ", "\n", "\t"}
Strip(s) ==
    LET keep == {i \in 1..Len(s) : ~IsSpace(s[i])}
    IN  IF keep = {} THEN <<>>
        ELSE SubSeq(s, CHOOSE i \in keep : \A j \in keep : i <= j,
                       CHOOSE i \in keep : \A j \in keep : j <= i)

\* str(n) for the one-digit integers the handlers format
Str(n) == <<DIGITS[n + 1]>>

\* re.sub(r'[^a-zA-Z0-9_-]', '', name)
NameChar_Printable(c) == c # "\n"
NameChar(c) == c \in Range(UPPER) \cup Range(LOWER) \cup Range(DIGITS) \cup {"_", "-"}
Sanitize(s) == SelectSeq(s, NameChar)

ALREADY_STARTED == <<"a", "l", "r", "e", "a", "d", "y", " ", "s", "t", "a", "r", "t", "e", "d">>
ALREADY_STOPPED == <<"a", "l", "r", "e", "a", "d", "y", " ", "s", "t", "o", "p", "p", "e", "d">>

\* ------------------------------------------- what the external commands say
\* supervisorctl prints its answers, errors included, on standard output.
OutStarted == <<"t", "e", "r", "r", "a", "r", "i", "a", ":", " ", "s", "t", "a", "r", "t", "e", "d">>
OutStopped == <<"t", "e", "r", "r", "a", "r", "i", "a", ":", " ", "s", "t", "o", "p", "p", "e", "d">>
OutAlreadyStarted == <<"t", "e", "r", "r", "a", "r", "i", "a", ":", " ", "E", "R", "R", "O", "R", " ", "(", "a", "l", "r", "e", "a", "d", "y", " ", "s", "t", "a", "r", "t", "e", "d", ")">>
OutAlreadyStopped == <<"t", "e", "r", "r", "a", "r", "i", "a", ":", " ", "E", "R", "R", "O", "R", " ", "(", "a", "l", "r", "e", "a", "d", "y", " ", "s", "t", "o", "p", "p", "e", "d", ")">>
OutNotRunning == <<"t", "e", "r", "r", "a", "r", "i", "a", ":", " ", "E", "R", "R", "O", "R", " ", "(", "n", "o", "t", " ", "r", "u", "n", "n", "i", "n", "g", ")">>
OutSpawnError == <<"t", "e", "r", "r", "a", "r", "i", "a", ":", " ", "E", "R", "R", "O", "R", " ", "(", "s", "p", "a", "w", "n", " ", "e", "r", "r", "o", "r", ")">>
ErrTimedOut == <<"C", "o", "m", "m", "a", "n", "d", " ", "t", "i", "m", "e", "d", " ", "o", "u", "t">>
OutPid == <<"1", "2", "3", "4", "\n">>

\* run_command / run_script: (success, stdout, stderr)
Result(success, stdout, stderr) ==
    [success |-> success, stdout |-> stdout, stderr |-> stderr]
NoResult == Result(FALSE, <<>>, <<>>)
\* subprocess.TimeoutExpired and every other exception end as (False, '', text)
Failed == Result(FALSE, <<>>, ErrTimedOut)


\* ------------------------------------------------------------- the requests
Alpha == <<"A", "l", "p", "h", "a">>
Beta == <<"B", "e", "t", "a">>
\* request texts that are no clean world name
AlphaSpaced == <<"A", "l", " ", "p", "h", "a">>
Bangs == <<"!", "!">>
TrueText == <<"t", "r", "u", "e">>
SeedText == <<"s", "1">>

BkAlpha == <<"b", "a", "c", "k", "u", "p", "_", "A", "l", "p", "h", "a", "_", "2", "0", "2", "6", "0", "1", "0", "1", "_", "0", "0", "0", "0", "0", "0", ".", "t", "a", "r", ".", "g", "z">>
BkPreRestore == <<"b", "a", "c", "k", "u", "p", "_", "A", "l", "p", "h", "a", "_", "2", "0", "2", "6", "0", "1", "0", "2", "_", "0", "0", "0", "0", "0", "0", ".", "t", "a", "r", ".", "g", "z">>
BkTraversal == <<".", ".", "/", "x">>

Absent == "absent"
WorldFiles == {Alpha, Beta, <<>>}
\* the backups that backup.sh create writes of Alpha and of Beta
BkAlphaNew == <<"b", "a", "c", "k", "u", "p", "_", "A", "l", "p", "h", "a", "_", "2", "0", "2", "6", "0", "1", "0", "3", "_", "0", "0", "0", "0", "0", "0", ".", "t", "a", "r", ".", "g", "z">>
BkBetaNew == <<"b", "a", "c", "k", "u", "p", "_", "B", "e", "t", "a", "_", "2", "0", "2", "6", "0", "1", "0", "3", "_", "0", "0", "0", "0", "0", "0", ".", "t", "a", "r", ".", "g", "z">>
BackupFiles == {BkAlpha, BkPreRestore, BkAlphaNew, BkBetaNew}

Req(op, name, confirm, size, difficulty, seed, no_backup, force) ==
    [op |-> op, name |-> name, confirm |-> confirm, size |-> size,
     difficulty |-> difficulty, seed |-> seed, no_backup |-> no_backup,
     force |-> force]

ServerRequests ==
    {Req(op, <<>>, <<>>, 0, 0, <<>>, FALSE, FALSE) : op \in {"start", "stop", "restart"}}
\* an existing backup with either flag set, a missing one, a path out of BACKUP_DIR
RestoreRequests ==
    {Req("restore", BkAlpha, <<>>, 0, 0, <<>>, nb, ~nb) : nb \in BOOLEAN}
    \cup {Req("restore", f, <<>>, 0, 0, <<>>, FALSE, FALSE) : f \in {BkPreRestore, BkTraversal}}
\* a name that collides once sanitized, a free name, an unusable name, none
CreateRequests ==
    {Req("create_world", n, <<>>, 3, 1, SeedText, FALSE, FALSE) : n \in {AlphaSpaced, Beta}}
    \cup {Req("create_world", n, <<>>, 9, 7, <<>>, FALSE, FALSE) : n \in {Beta, Bangs, <<>>}}
\* the world's own name as confirmation, "true", nothing
DeleteRequests ==
    {Req("delete_world", n, c, 0, 0, <<>>, FALSE, FALSE) :
        n \in {AlphaSpaced, Beta}, c \in {Alpha, TrueText, <<>>}}
    \cup {Req("delete_world", Beta, Beta, 0, 0, <<>>, FALSE, FALSE),
          Req("delete_world", Bangs, <<>>, 0, 0, <<>>, FALSE, FALSE)}
\* The files of LOG_DIR that the backend knows by a logical name.
LogFiles == {"terraria-stdout.log", "terraria-stderr.log", "supervisord.log",
             "crashes.log", "backup.log", "restore.log", "world-manager.log"}
\* a server log of three lines, a crash log of one, an empty backup log
LogFile(exists, lines) == [exists |-> exists, lines |-> lines]
LogsAtStart ==
    [f \in LogFiles |->
        CASE f = "terraria-stdout.log" -> LogFile(TRUE, <<"l0", "l1", "l2">>)
          [] f = "crashes.log" -> LogFile(TRUE, <<"c0">>)
          [] f = "backup.log" -> LogFile(TRUE, <<>>)
          [] OTHER -> LogFile(FALSE, <<>>)]

\* no function is being applied on its own
NoCall == [fn |-> "none"]

TrueUpper == <<"T", "R", "U", "E">>
FalseText == <<"f", "a", "l", "s", "e">>
\* confirm=true in either case, a world's name as for delete_world, nothing;
\* a backup that is not there, a path out of BACKUP_DIR
DeleteBackupRequests ==
    {Req("delete_backup", BkAlpha, c, 0, 0, <<>>, FALSE, FALSE) :
        c \in {TrueText, TrueUpper, Alpha, <<>>}}
    \cup {Req("delete_backup", f, TrueText, 0, 0, <<>>, FALSE, FALSE) :
            f \in {BkPreRestore, BkTraversal}}

\* a name that names a world once sanitized, a world that is not there, a name
\* of which nothing is left
GetWorldRequests ==
    {Req("get_world", n, <<>>, 0, 0, <<>>, FALSE, FALSE) : n \in {AlphaSpaced, Beta, Bangs}}

\* copy_world also takes the destination of the request body
CopyReq(name, destination) ==
    [op |-> "copy_world", name |-> name, confirm |-> <<>>, size |-> 0,
     difficulty |-> 0, seed |-> <<>>, no_backup |-> FALSE, force |-> FALSE,
     destination |-> destination]
\* to a free name, to a name of which nothing is left, to none, onto itself;
\* from a name of which nothing is left
CopyRequests ==
    {CopyReq(AlphaSpaced, d) : d \in {Beta, Bangs, <<>>, Alpha}}
    \cup {CopyReq(Bangs, Beta)}

\* a backup of every world, of one that is there, of one that is not, of a
\* name of which nothing is left
CreateBackupRequests ==
    {Req("create_backup", n, <<>>, 0, 0, <<>>, FALSE, FALSE) :
        n \in {<<>>, AlphaSpaced, Beta, Bangs}}
\* every logical name of a log and the alias of the crash log with
\* confirm=true; the crash log and the server log also with confirm=TRUE,
\* another word or nothing
LogNames == {<<"s", "e", "r", "v", "e", "r">>, <<"e", "r", "r", "o", "r">>, <<"s", "u", "p", "e", "r", "v", "i", "s", "o", "r">>, <<"c", "r", "a", "s", "h">>, <<"c", "r", "a", "s", "h", "e", "s">>, <<"b", "a", "c", "k", "u", "p">>, <<"r", "e", "s", "t", "o", "r", "e">>, <<"w", "o", "r", "l", "d">>}
ClearLogRequests ==
    {Req("clear_log", n, TrueText, 0, 0, <<>>, FALSE, FALSE) : n \in LogNames}
    \cup {Req("clear_log", n, c, 0, 0, <<>>, FALSE, FALSE) :
            n \in {<<"c", "r", "a", "s", "h">>, <<"s", "e", "r", "v", "e", "r">>},
            c \in {TrueUpper, Alpha, <<>>}}
CleanupRequests == {Req("cleanup", <<>>, <<>>, 0, 0, <<>>, FALSE, FALSE)}

Requests ==
    ServerRequests \cup RestoreRequests \cup CreateRequests \cup DeleteRequests
    \cup DeleteBackupRequests \cup GetWorldRequests \cup CopyRequests
    \cup CreateBackupRequests \cup CleanupRequests \cup ClearLogRequests
\* the requests of one route
Route(op) == {r \in Requests : r.op = op}

\* ---------------------------------------------------------------- the state
VARIABLES
    alive,      \* the TerrariaServer process is in the process table
    environ,    \* os.environ of the API process
    wld,        \* WORLD_DIR/<name>.wld: content or Absent
    bak,        \* WORLD_DIR/<name>.wld.bak: content or Absent
    backups,    \* BACKUP_DIR/<filename>: content or Absent
    logs,       \* LOG_DIR/<filename>: the lines of the file, or Absent
    call,       \* a function of the backend applied on its own: arguments and value
    handlers    \* the requests accepted so far, each with its handler's state

shared == <<alive, environ, wld, bak, backups, logs, call>>
vars == <<alive, environ, wld, bak, backups, logs, call, handlers>>

\* Config.WORLD_NAME = os.environ.get('WORLD_NAME', 'world'), read at import
ConfigWORLD_NAME == environ.WORLD_NAME

Call(cmd, target, flags, env) ==
    [cmd |-> cmd, target |-> target, flags |-> flags, env |-> env]

\* A request that has just been dispatched to its route.
New(q) ==
    [req |-> q,             \* the request
     pc |-> "new",          \* the handler's place in its code
     running |-> "unset",   \* what is_server_running() returned to it
     existed |-> "unset",   \* whether the world file was there when it first looked
     seen |-> "unset",      \* what it saw of the file after the script
     result |-> NoResult,   \* what run_command / run_script last returned to it
     status |-> 0,          \* the HTTP status of the response (0: none yet)
     calls |-> <<>>,        \* the commands it has launched, in order
     touched |-> {}]        \* the files it has removed or written

Handlers == BagToSet(handlers)

Init ==
    /\ alive \in BOOLEAN
    /\ environ \in [WORLD_NAME : {Alpha, Beta}, AUTOCREATE : {Str(2)},
                    DIFFICULTY : {Str(0)}, WORLD_SEED : {<<>>}]
    /\ wld = [n \in WorldFiles |-> IF n = Alpha THEN "v1" ELSE Absent]
    /\ bak = [n \in WorldFiles |-> IF n = Alpha THEN "v0" ELSE Absent]
    /\ backups = [f \in BackupFiles |-> IF f = BkAlpha THEN "v0" ELSE Absent]
    /\ logs = LogsAtStart
    /\ call = NoCall
    /\ handlers = EmptyBag

\* A request arrives and its handler makes its first step, which leaves it as h.
Accept(h) ==
    /\ BagCardinality(handlers) < MaxRequests
    /\ handlers' = handlers (+) SetToBag({h})

\* The handler that is at h makes a step, which leaves it as h2.
Step(h, h2) == handlers' = (handlers (-) SetToBag({h})) (+) SetToBag({h2})

\* The handler returns: the response goes out.
Respond(h, code) == [h EXCEPT !.pc = "done", !.status = code]

\* A check made before the handler goes on: a status to return at once, or 0.
Proceed(h, code, next) ==
    IF code # 0 THEN Respond(h, code) ELSE [h EXCEPT !.pc = next]

\* ---------------------------------------------------------- the state probe
\* pgrep -f TerrariaServer, through run_command: the pids when the process is
\* in the process table, exit status 1 when it is not, and (False, '', text)
\* when pgrep times out or cannot be run.
PgrepResults ==
    (IF alive THEN {Result(TRUE, OutPid, <<>>)} ELSE {Result(FALSE, <<>>, <<>>)})
    \cup {Failed}

is_server_running(r) == r.success /\ Strip(r.stdout) # <<>>

Probed(r) == IF is_server_running(r) THEN "alive" ELSE "dead"

\* the handler after is_server_running() has returned on pgrep's result r
Probe(h, r) == [h EXCEPT !.running = Probed(r), !.result = r]

\* --------------------------------------------------------------- supervisor
\* What supervisorctl <verb> terraria can answer, and whether the process is
\* alive afterwards. A command that times out may or may not have acted.
Answer(res, aliveAfter) == [res |-> res, aliveAfter |-> aliveAfter]

SupervisorAnswers(verb) ==
    CASE verb = "start" ->
            IF alive
            THEN {Answer(Result(ok, OutAlreadyStarted, <<>>), TRUE) : ok \in BOOLEAN}
                 \cup {Answer(Failed, TRUE)}
            ELSE {Answer(Result(TRUE, OutStarted, <<>>), TRUE),
                  Answer(Result(FALSE, OutSpawnError, <<>>), FALSE),
                  Answer(Failed, TRUE), Answer(Failed, FALSE)}
      [] verb = "stop" ->
            IF alive
            THEN {Answer(Result(TRUE, OutStopped, <<>>), FALSE),
                  Answer(Failed, TRUE), Answer(Failed, FALSE)}
            ELSE {Answer(Result(FALSE, OutNotRunning, <<>>), FALSE),
                  Answer(Result(FALSE, OutAlreadyStopped, <<>>), FALSE),
                  Answer(Failed, FALSE)}
      [] verb = "restart" ->
            {Answer(Result(TRUE, OutStarted, <<>>), TRUE),
             Answer(Result(FALSE, OutSpawnError, <<>>), FALSE),
             Answer(Failed, TRUE), Answer(Failed, FALSE)}

\* run_command(['supervisorctl', verb, 'terraria']) has answered a
Supervisorctl(h, verb, a) ==
    [h EXCEPT !.result = a.res,
              !.calls = Append(@, Call("supervisorctl", <<>>, {verb}, environ))]

\* ------------------------------------------------------------- start_server
\* start_server without its check of the probe
StartGate_Off(isRunning) == 0
StartGate(isRunning) == IF isRunning THEN 400 ELSE 0

\* start_server trusting the exit status alone
StartOutcome_ExitOnly(r) == IF r.success THEN 200 ELSE 500
StartOutcome(r) ==
    IF r.success \/ Contains(ALREADY_STARTED, Lower(r.stdout)) THEN 200 ELSE 500

StartProbe ==
    /\ \E q \in Route("start"), r \in PgrepResults :
        Accept(Proceed(Probe(New(q), r), StartGate(is_server_running(r)),
                       "start_command"))
    /\ UNCHANGED shared

StartCommand ==
    /\ \E h \in Handlers, a \in SupervisorAnswers("start") :
        /\ h.pc = "start_command"
        /\ alive' = a.aliveAfter
        /\ Step(h, Respond(Supervisorctl(h, "start", a), StartOutcome(a.res)))
    /\ UNCHANGED <<environ, wld, bak, backups, logs, call>>

\* -------------------------------------------------------------- stop_server
\* stop_server without its check of the probe
StopGate_Off(isRunning) == 0
StopGate(isRunning) == IF ~isRunning THEN 400 ELSE 0

StopOutcome(r) ==
    IF r.success \/ Contains(ALREADY_STOPPED, Lower(r.stdout)) THEN 200 ELSE 500

StopProbe ==
    /\ \E q \in Route("stop"), r \in PgrepResults :
        Accept(Proceed(Probe(New(q), r), StopGate(is_server_running(r)),
                       "stop_command"))
    /\ UNCHANGED shared

StopCommand ==
    /\ \E h \in Handlers, a \in SupervisorAnswers("stop") :
        /\ h.pc = "stop_command"
        /\ alive' = a.aliveAfter
        /\ Step(h, Respond(Supervisorctl(h, "stop", a), StopOutcome(a.res)))
    /\ UNCHANGED <<environ, wld, bak, backups, logs, call>>

\* ----------------------------------------------------------- restart_server
RestartOutcome(r) == IF r.success THEN 200 ELSE 500

RestartCommand ==
    /\ \E q \in Route("restart"), a \in SupervisorAnswers("restart") :
        /\ alive' = a.aliveAfter
        /\ Accept(Respond(Supervisorctl(New(q), "restart", a), RestartOutcome(a.res)))
    /\ UNCHANGED <<environ, wld, bak, backups, logs, call>>


\* run_script: the subprocess gets {**os.environ, 'TERM': 'dumb'}; run_script
\* has no parameter for an environment the handler has built. (TERM is left
\* out of the records: no script of the model reads it.)
ScriptEnv(handlerEnv) == environ

\* run_script returns at once when the script file is missing.
ScriptNotFound == Result(FALSE, <<>>, <<"S", "c", "r", "i", "p", "t", " ", "n", "o", "t", " ", "f", "o", "u", "n", "d">>)

\* What a script's exit can look like to run_script.
ScriptResults ==
    {Result(TRUE, <<"o", "k">>, <<>>), Result(FALSE, <<>>, <<"e", "r", "r">>), Failed}

\* ----------------------------------------------------------- restore_backup
DOTDOT == <<".", ".">>
SLASH == <<"/">>

BackupExists(f) == f \in BackupFiles /\ backups[f] # Absent

RestoreFileGate(filename, exists) ==
    IF Contains(DOTDOT, filename) \/ Contains(SLASH, filename) THEN 400
    ELSE IF ~exists THEN 404
    ELSE 0

\* restore_backup without, and with an inverted, check of the probe
RestoreGate_Off(isRunning) == 0
RestoreGate_Inverted(isRunning) == IF ~isRunning THEN 400 ELSE 0
RestoreGate(isRunning) == IF isRunning THEN 400 ELSE 0

RestoreFlags(no_backup) ==
    {"restore", "--force"} \cup (IF no_backup THEN {"--no-backup"} ELSE {})

RestoreOutcome(r) == IF r.success THEN 200 ELSE 500

RestoreExists ==
    /\ \E q \in Route("restore") :
        Accept(Proceed(New(q), RestoreFileGate(q.name, BackupExists(q.name)),
                       "restore_probe"))
    /\ UNCHANGED shared

RestoreProbe ==
    /\ \E h \in Handlers, r \in PgrepResults :
        /\ h.pc = "restore_probe"
        /\ Step(h, Proceed(Probe(h, r), RestoreGate(is_server_running(r)),
                           "restore_launch"))
    /\ UNCHANGED shared

\* run_script(Config.RESTORE_SCRIPT, args, timeout=60) starts the script ...
RestoreLaunch ==
    /\ \E h \in Handlers :
        /\ h.pc = "restore_launch"
        /\ \/ Step(h, [h EXCEPT !.pc = "restore_running",
                                !.calls = Append(@, Call("restore.sh", h.req.name,
                                                 RestoreFlags(h.req.no_backup),
                                                 ScriptEnv(environ)))])
           \/ Step(h, Respond([h EXCEPT !.result = ScriptNotFound],
                              RestoreOutcome(ScriptNotFound)))
    /\ UNCHANGED shared

\* What restore.sh restore <file> --force [--no-backup] does to the files: it
\* unpacks the backup over the world it holds and, unless told not to, first
\* saves the world as it is in a new backup.
RestoreScriptEffect(c, acted) ==
    LET f == c.target
        pre == "--no-backup" \notin c.flags /\ wld[Alpha] # Absent
                 /\ backups[BkPreRestore] = Absent
    IN  IF acted /\ backups[f] # Absent
        THEN [wld |-> [wld EXCEPT ![Alpha] = backups[f]],
              backups |-> IF pre THEN [backups EXCEPT ![BkPreRestore] = wld[Alpha]]
                          ELSE backups,
              touched |-> {<<"wld", Alpha>>}
                          \cup (IF pre THEN {<<"backup", BkPreRestore>>} ELSE {})]
        ELSE [wld |-> wld, backups |-> backups, touched |-> {}]

\* ... and waits for it to end.
RestoreFinish ==
    /\ \E h \in Handlers, r \in ScriptResults :
        /\ h.pc = "restore_running"
        /\ \E acted \in (IF r.success THEN {TRUE} ELSE BOOLEAN) :
            LET eff == RestoreScriptEffect(h.calls[Len(h.calls)], acted)
            IN  /\ wld' = eff.wld
                /\ backups' = eff.backups
                /\ Step(h, Respond([h EXCEPT !.result = r,
                                             !.touched = @ \cup eff.touched],
                                   RestoreOutcome(r)))
    /\ UNCHANGED <<alive, environ, bak, logs, call>>


\* ------------------------------------------------------------- create_world
WorldExists(n) == n \in WorldFiles /\ wld[n] # Absent
BakExists(n) == n \in WorldFiles /\ bak[n] # Absent

\* `if not name` and `if not sanitized_name`
CreateNameGate(name) ==
    IF name = <<>> THEN 400
    ELSE IF Sanitize(name) = <<>> THEN 400
    ELSE 0

CreateExistsGate(exists) == IF exists THEN 409 ELSE 0

ValidSize(size) == IF size \in {1, 2, 3} THEN size ELSE 2
ValidDifficulty(difficulty) == IF difficulty \in {0, 1, 2, 3} THEN difficulty ELSE 0

\* env = os.environ.copy(); env['WORLD_NAME'] = sanitized_name; ...
CreateEnv(r) ==
    [environ EXCEPT !.WORLD_NAME = Sanitize(r.name),
                    !.AUTOCREATE = Str(ValidSize(r.size)),
                    !.DIFFICULTY = Str(ValidDifficulty(r.difficulty)),
                    !.WORLD_SEED = IF r.seed # <<>> THEN r.seed ELSE @]

\* `if os.path.exists(filepath)` after the script: the exit status is not read
\* create_world asking for both the exit status and the file
CreateCheckGate_Both(success, exists) == IF success /\ exists THEN 0 ELSE 500
\* create_world judging by the script's exit status
CreateCheckGate_ByExit(success, exists) == IF success THEN 0 ELSE 500
CreateCheckGate(success, exists) == IF exists THEN 0 ELSE 500

\* info = get_file_info(filepath); info['size_human'] raises on None
CreateInfoOutcome(exists) == IF exists THEN 201 ELSE 500

\* create_world looking for the file under the name as it was sent
CreateFilepath_Raw(r) == r.name
\* filepath = os.path.join(Config.WORLD_DIR, f'{sanitized_name}.wld')
CreateFilepath(r) == Sanitize(r.name)

CreateExists ==
    /\ \E q \in Route("create_world") :
        LET code == CreateNameGate(q.name)
            h == [New(q) EXCEPT !.existed =
                    IF WorldExists(Sanitize(q.name)) THEN "yes" ELSE "no"]
        IN  Accept(Proceed(h, IF code # 0 THEN code
                              ELSE CreateExistsGate(WorldExists(CreateFilepath(q))),
                           "create_launch"))
    /\ UNCHANGED shared

\* run_script(Config.WORLD_MANAGER_SCRIPT, ['create-auto'], timeout=300)
CreateLaunch ==
    /\ \E h \in Handlers :
        /\ h.pc = "create_launch"
        /\ \/ Step(h, [h EXCEPT !.pc = "create_running",
                                !.calls = Append(@, Call("world-manager.sh", <<>>,
                                                 {"create-auto"},
                                                 ScriptEnv(CreateEnv(h.req))))])
           \/ Step(h, [h EXCEPT !.pc = "create_check", !.result = ScriptNotFound])
    /\ UNCHANGED shared

\* What world-manager.sh create-auto does to the files: it generates the world
\* that WORLD_NAME of its environment names, unless that world is there.
CreateScriptEffect(c, acted) ==
    LET n == c.env.WORLD_NAME
    IN  IF acted /\ n \in WorldFiles /\ wld[n] = Absent
        THEN [wld |-> [wld EXCEPT ![n] = "gen"], touched |-> {<<"wld", n>>}]
        ELSE [wld |-> wld, touched |-> {}]

CreateFinish ==
    /\ \E h \in Handlers, r \in ScriptResults, acted \in BOOLEAN :
        /\ h.pc = "create_running"
        /\ LET eff == CreateScriptEffect(h.calls[Len(h.calls)], acted)
           IN  /\ wld' = eff.wld
               /\ Step(h, [h EXCEPT !.pc = "create_check", !.result = r,
                                    !.touched = @ \cup eff.touched])
    /\ UNCHANGED <<alive, environ, bak, backups, logs, call>>

CreateCheck ==
    /\ \E h \in Handlers :
        /\ h.pc = "create_check"
        /\ LET exists == WorldExists(CreateFilepath(h.req))
           IN  Step(h, Proceed([h EXCEPT !.seen = IF exists THEN "yes" ELSE "no"],
                               CreateCheckGate(h.result.success, exists),
                               "create_info"))
    /\ UNCHANGED shared

CreateInfo ==
    /\ \E h \in Handlers :
        /\ h.pc = "create_info"
        /\ LET exists == WorldExists(CreateFilepath(h.req))
           IN  Step(h, Respond([h EXCEPT !.seen = IF exists THEN @ ELSE "vanished"],
                               CreateInfoOutcome(exists)))
    /\ UNCHANGED shared

\* ------------------------------------------------------------- delete_world
DeleteExistsGate(exists) == IF ~exists THEN 404 ELSE 0

\* confirm = request.args.get('confirm', ''); `if confirm != name`
\* delete_world confirmed the way delete_backup is: by the word "true"
DeleteConfirmGate_True(confirm, name) == IF confirm # TrueText THEN 400 ELSE 0
DeleteConfirmGate(confirm, name) == IF confirm # name THEN 400 ELSE 0

\* `if name == Config.WORLD_NAME and is_server_running()`
IsActiveWorld(name) == name = ConfigWORLD_NAME
\* delete_world without its check of the probe
DeleteActiveGate_Off(isRunning) == 0
DeleteActiveGate(isRunning) == IF isRunning THEN 400 ELSE 0

DeleteExists ==
    /\ \E q \in Route("delete_world") :
        LET name == Sanitize(q.name)
            code == DeleteExistsGate(WorldExists(name))
            h == [New(q) EXCEPT !.existed = IF WorldExists(name) THEN "yes" ELSE "no"]
        IN  Accept(Proceed(h, IF code # 0 THEN code
                              ELSE DeleteConfirmGate(q.confirm, name),
                           IF IsActiveWorld(name) THEN "delete_probe"
                           ELSE "delete_remove"))
    /\ UNCHANGED shared

DeleteProbe ==
    /\ \E h \in Handlers, r \in PgrepResults :
        /\ h.pc = "delete_probe"
        /\ Step(h, Proceed(Probe(h, r), DeleteActiveGate(is_server_running(r)),
                           "delete_remove"))
    /\ UNCHANGED shared

\* os.remove(filepath); an OSError is answered with 500
DeleteRemove ==
    /\ \E h \in Handlers :
        /\ h.pc = "delete_remove"
        /\ LET name == Sanitize(h.req.name)
           IN  IF WorldExists(name)
               THEN /\ wld' = [wld EXCEPT ![name] = Absent]
                    /\ Step(h, [h EXCEPT !.pc = "delete_bak_exists",
                                         !.touched = @ \cup {<<"wld", name>>}])
               ELSE /\ Step(h, Respond(h, 500))
                    /\ UNCHANGED wld
    /\ UNCHANGED <<alive, environ, bak, backups, logs, call>>

\* `if os.path.exists(bak_filepath)`
DeleteBakExists ==
    /\ \E h \in Handlers :
        /\ h.pc = "delete_bak_exists"
        /\ Step(h, IF BakExists(Sanitize(h.req.name))
                   THEN [h EXCEPT !.pc = "delete_bak_remove"]
                   ELSE Respond(h, 200))
    /\ UNCHANGED shared

\* os.remove(bak_filepath)
DeleteBakRemove ==
    /\ \E h \in Handlers :
        /\ h.pc = "delete_bak_remove"
        /\ LET name == Sanitize(h.req.name)
           IN  IF BakExists(name)
               THEN /\ bak' = [bak EXCEPT ![name] = Absent]
                    /\ Step(h, Respond([h EXCEPT !.touched = @ \cup {<<"bak", name>>}],
                                       200))
               ELSE /\ Step(h, Respond(h, 500))
                    /\ UNCHANGED bak
    /\ UNCHANGED <<alive, environ, wld, backups, logs, call>>

\* ------------------------------------------------------------ specification
Next ==
    \/ StartProbe
    \/ StartCommand
    \/ StopProbe
    \/ StopCommand
    \/ RestartCommand
    \/ RestoreExists
    \/ RestoreProbe
    \/ RestoreLaunch
    \/ RestoreFinish
    \/ CreateExists
    \/ CreateLaunch
    \/ CreateFinish
    \/ CreateCheck
    \/ CreateInfo
    \/ DeleteExists
    \/ DeleteProbe
    \/ DeleteRemove
    \/ DeleteBakExists
    \/ DeleteBakRemove

Spec == Init /\ [][Next]_vars


\* ------------------------------------------------------------ delete_backup
\* confirm = request.args.get('confirm', 'false').lower(); `if confirm != 'true'`
\* delete_backup without its check of the confirmation
\* delete_backup taking any word for a confirmation
DeleteBackupConfirmGate_AnyWord(confirm) == IF confirm = <<>> THEN 400 ELSE 0
DeleteBackupConfirmGate_Off(confirm) == 0
DeleteBackupConfirmGate(confirm) ==
    IF Lower(IF confirm = <<>> THEN FalseText ELSE confirm) # TrueText THEN 400 ELSE 0

DeleteBackupExists ==
    /\ \E q \in Route("delete_backup") :
        LET code == RestoreFileGate(q.name, BackupExists(q.name))
            h == [New(q) EXCEPT !.existed =
                    IF BackupExists(q.name) THEN "yes" ELSE "no"]
        IN  Accept(Proceed(h, IF code # 0 THEN code
                              ELSE DeleteBackupConfirmGate(q.confirm),
                           "delete_backup_remove"))
    /\ UNCHANGED shared

\* os.remove(filepath); an exception is answered with 500
DeleteBackupRemove ==
    /\ \E h \in Handlers :
        /\ h.pc = "delete_backup_remove"
        /\ IF BackupExists(h.req.name)
           THEN /\ backups' = [backups EXCEPT ![h.req.name] = Absent]
                /\ Step(h, Respond([h EXCEPT !.touched =
                                        @ \cup {<<"backup", h.req.name>>}], 200))
           ELSE /\ Step(h, Respond(h, 500))
                /\ UNCHANGED backups
    /\ UNCHANGED <<alive, environ, wld, bak, logs, call>>

\* ---------------------------------------------------------------- get_world
GetWorldExistsGate(exists) == IF ~exists THEN 404 ELSE 0

\* info = get_file_info(filepath); info['size_bytes'] raises on None, and the
\* errorhandler of app.py answers 500
GetWorldInfoGate(exists) == IF ~exists THEN 500 ELSE 0

GetWorldExists ==
    /\ \E q \in Route("get_world") :
        LET name == Sanitize(q.name)
            h == [New(q) EXCEPT !.existed = IF WorldExists(name) THEN "yes" ELSE "no"]
        IN  Accept(Proceed(h, GetWorldExistsGate(WorldExists(name)), "get_world_info"))
    /\ UNCHANGED shared

GetWorldInfo ==
    /\ \E h \in Handlers :
        /\ h.pc = "get_world_info"
        /\ Step(h, Proceed(h, GetWorldInfoGate(WorldExists(Sanitize(h.req.name))),
                           "get_world_bak"))
    /\ UNCHANGED shared

\* `if os.path.exists(bak_filepath)`
GetWorldBak ==
    /\ \E h \in Handlers :
        /\ h.pc = "get_world_bak"
        /\ Step(h, IF BakExists(Sanitize(h.req.name))
                   THEN [h EXCEPT !.pc = "get_world_bak_info"]
                   ELSE Respond(h, 200))
    /\ UNCHANGED shared

\* bak_info = get_file_info(bak_filepath); bak_info['size_human']
GetWorldBakInfo ==
    /\ \E h \in Handlers :
        /\ h.pc = "get_world_bak_info"
        /\ Step(h, Respond(h, IF BakExists(Sanitize(h.req.name)) THEN 200 ELSE 500))
    /\ UNCHANGED shared

\* --------------------------------------------------------------- copy_world
\* `if not data or not data.get('destination')` and `if not dest_name`
CopyDestGate(destination) ==
    IF destination = <<>> THEN 400
    ELSE IF Sanitize(destination) = <<>> THEN 400
    ELSE 0

CopyExists ==
    /\ \E q \in Route("copy_world") :
        LET name == Sanitize(q.name)
            code == GetWorldExistsGate(WorldExists(name))
            h == [New(q) EXCEPT !.existed = IF WorldExists(name) THEN "yes" ELSE "no"]
        IN  Accept(Proceed(h, IF code # 0 THEN code ELSE CopyDestGate(q.destination),
                           "copy_dest_exists"))
    /\ UNCHANGED shared

\* `if os.path.exists(dest_filepath)`
CopyDestExists ==
    /\ \E h \in Handlers :
        /\ h.pc = "copy_dest_exists"
        /\ Step(h, Proceed(h, CreateExistsGate(WorldExists(Sanitize(h.req.destination))),
                           "copy_file"))
    /\ UNCHANGED shared

\* shutil.copy2(src_filepath, dest_filepath); an exception is answered with 500
CopyFile ==
    /\ \E h \in Handlers :
        /\ h.pc = "copy_file"
        /\ LET src == Sanitize(h.req.name)
               dest == Sanitize(h.req.destination)
           IN  IF WorldExists(src)
               THEN /\ wld' = [wld EXCEPT ![dest] = wld[src]]
                    /\ Step(h, [h EXCEPT !.pc = "copy_bak_exists",
                                         !.touched = @ \cup {<<"wld", dest>>}])
               ELSE /\ Step(h, Respond(h, 500))
                    /\ UNCHANGED wld
    /\ UNCHANGED <<alive, environ, bak, backups, logs, call>>

\* copy_world without the copy of the .bak file
CopyBakExists_Never ==
    /\ \E h \in Handlers :
        /\ h.pc = "copy_bak_exists"
        /\ Step(h, [h EXCEPT !.pc = "copy_info"])
    /\ UNCHANGED shared

\* `if os.path.exists(src_bak)`
CopyBakExists ==
    /\ \E h \in Handlers :
        /\ h.pc = "copy_bak_exists"
        /\ Step(h, [h EXCEPT !.pc = IF BakExists(Sanitize(h.req.name))
                                    THEN "copy_bak" ELSE "copy_info"])
    /\ UNCHANGED shared

\* shutil.copy2(src_bak, dest_filepath + '.bak')
CopyBak ==
    /\ \E h \in Handlers :
        /\ h.pc = "copy_bak"
        /\ LET src == Sanitize(h.req.name)
               dest == Sanitize(h.req.destination)
           IN  IF BakExists(src)
               THEN /\ bak' = [bak EXCEPT ![dest] = bak[src]]
                    /\ Step(h, [h EXCEPT !.pc = "copy_info",
                                         !.touched = @ \cup {<<"bak", dest>>}])
               ELSE /\ Step(h, Respond(h, 500))
                    /\ UNCHANGED bak
    /\ UNCHANGED <<alive, environ, wld, backups, logs, call>>

\* info = get_file_info(dest_filepath); info['size_human'] raises on None,
\* inside the try
CopyInfo ==
    /\ \E h \in Handlers :
        /\ h.pc = "copy_info"
        /\ Step(h, Respond(h, CreateInfoOutcome(WorldExists(Sanitize(h.req.destination)))))
    /\ UNCHANGED shared

\* ------------------------------------------------------------ create_backup
\* `if world:` sanitize it and `if not os.path.exists(world_path)`
CreateBackupExistsGate(world, exists) ==
    IF world # <<>> /\ ~exists THEN 404 ELSE 0

\* args = ['create']; `if world: args.append(world)`, world being sanitized
CreateBackupTarget(world) == IF world # <<>> THEN Sanitize(world) ELSE <<>>

\* create_backup answering 201 whatever the script returned
CreateBackupOutcome_Always(r) == 201
\* `if success` ... 201, else 500
CreateBackupOutcome(r) == IF r.success THEN 0 ELSE 500

CreateBackupExists ==
    /\ \E q \in Route("create_backup") :
        LET exists == WorldExists(Sanitize(q.name))
            h == [New(q) EXCEPT !.existed = IF exists THEN "yes" ELSE "no"]
        IN  Accept(Proceed(h, CreateBackupExistsGate(q.name, exists),
                           "create_backup_launch"))
    /\ UNCHANGED shared

\* run_script(Config.BACKUP_SCRIPT, args, timeout=60)
CreateBackupLaunch ==
    /\ \E h \in Handlers :
        /\ h.pc = "create_backup_launch"
        /\ \/ Step(h, [h EXCEPT !.pc = "create_backup_running",
                                !.calls = Append(@, Call("backup.sh",
                                                 CreateBackupTarget(h.req.name),
                                                 {"create"}, ScriptEnv(environ)))])
           \/ Step(h, Respond([h EXCEPT !.result = ScriptNotFound],
                              CreateBackupOutcome(ScriptNotFound)))
    /\ UNCHANGED shared

\* What backup.sh create [world] does to the files: it writes a backup of the
\* world it was given, or of every world when it was given none, under a
\* name with the time of the run in it, so that no backup that is there is
\* written over. (One such name per world.)
BackedUp(c) ==
    {n \in {Alpha, Beta} :
        /\ wld[n] # Absent /\ (c.target = <<>> \/ c.target = n)
        /\ backups[IF n = Alpha THEN BkAlphaNew ELSE BkBetaNew] = Absent}

CreateBackupScriptEffect(c, acted) ==
    IF acted
    THEN [backups |-> [f \in BackupFiles |->
                         IF f = BkAlphaNew /\ Alpha \in BackedUp(c) THEN wld[Alpha]
                         ELSE IF f = BkBetaNew /\ Beta \in BackedUp(c) THEN wld[Beta]
                         ELSE backups[f]],
          touched |-> {<<"backup", BkAlphaNew>> : n \in BackedUp(c) \cap {Alpha}}
                      \cup {<<"backup", BkBetaNew>> : n \in BackedUp(c) \cap {Beta}}]
    ELSE [backups |-> backups, touched |-> {}]

CreateBackupFinish ==
    /\ \E h \in Handlers, r \in ScriptResults :
        /\ h.pc = "create_backup_running"
        /\ \E acted \in (IF r.success THEN {TRUE} ELSE BOOLEAN) :
            LET eff == CreateBackupScriptEffect(h.calls[Len(h.calls)], acted)
            IN  /\ backups' = eff.backups
                /\ Step(h, Proceed([h EXCEPT !.result = r,
                                             !.touched = @ \cup eff.touched],
                                   CreateBackupOutcome(r), "create_backup_list"))
    /\ UNCHANGED <<alive, environ, wld, bak, logs, call>>

\* the newest backups are listed and the answer is 201
CreateBackupList ==
    /\ \E h \in Handlers :
        /\ h.pc = "create_backup_list"
        /\ Step(h, Respond(h, 201))
    /\ UNCHANGED shared

\* ---------------------------------------------------------- cleanup_backups
CleanupOutcome(r) == IF r.success THEN 200 ELSE 500

\* run_script(Config.BACKUP_SCRIPT, ['cleanup'], timeout=60)
CleanupLaunch ==
    /\ \E q \in Route("cleanup") :
        \/ Accept([New(q) EXCEPT !.pc = "cleanup_running",
                                 !.calls = <<Call("backup.sh", <<>>, {"cleanup"},
                                                  ScriptEnv(environ))>>])
        \/ Accept(Respond([New(q) EXCEPT !.result = ScriptNotFound],
                          CleanupOutcome(ScriptNotFound)))
    /\ UNCHANGED shared

\* What backup.sh cleanup does to the files: it removes the backups that the
\* retention policy no longer keeps, here the oldest one or none.
CleanupScriptEffect(acted) ==
    IF acted /\ backups[BkAlpha] # Absent
    THEN [backups |-> [backups EXCEPT ![BkAlpha] = Absent],
          touched |-> {<<"backup", BkAlpha>>}]
    ELSE [backups |-> backups, touched |-> {}]

CleanupFinish ==
    /\ \E h \in Handlers, r \in ScriptResults, acted \in BOOLEAN :
        /\ h.pc = "cleanup_running"
        /\ LET eff == CleanupScriptEffect(acted)
           IN  /\ backups' = eff.backups
               /\ Step(h, Respond([h EXCEPT !.result = r,
                                            !.touched = @ \cup eff.touched],
                                  CleanupOutcome(r)))
    /\ UNCHANGED <<alive, environ, wld, bak, logs, call>>

\* ------------------------------------------------- one request at a time
\* The requests of a client that waits for each answer before it sends the
\* next: a request is accepted when no other is in its handler.
OneAtATime ==
    \A h, g \in Handlers :
        (h.pc # "done" /\ g.pc # "done") => (g = h /\ CopiesIn(h, handlers) = 1)

SerialStartProbe == StartProbe /\ OneAtATime'
SerialStopProbe == StopProbe /\ OneAtATime'
SerialRestartCommand == RestartCommand /\ OneAtATime'
SerialRestoreExists == RestoreExists /\ OneAtATime'
SerialCreateExists == CreateExists /\ OneAtATime'
SerialDeleteExists == DeleteExists /\ OneAtATime'
SerialDeleteBackupExists == DeleteBackupExists /\ OneAtATime'
SerialGetWorldExists == GetWorldExists /\ OneAtATime'
SerialCopyExists == CopyExists /\ OneAtATime'
SerialCreateBackupExists == CreateBackupExists /\ OneAtATime'
SerialCleanupLaunch == CleanupLaunch /\ OneAtATime'

\* the operations on the backups
NextBackups ==
    \/ SerialRestoreExists
    \/ RestoreProbe
    \/ RestoreLaunch
    \/ RestoreFinish
    \/ SerialDeleteBackupExists
    \/ DeleteBackupRemove
    \/ SerialCreateBackupExists
    \/ CreateBackupLaunch
    \/ CreateBackupFinish
    \/ CreateBackupList
    \/ SerialCleanupLaunch
    \/ CleanupFinish

SpecBackups == Init /\ [][NextBackups]_vars

\* the operations that take a world name from the request
NextNames ==
    \/ SerialCreateExists
    \/ CreateLaunch
    \/ CreateFinish
    \/ CreateCheck
    \/ CreateInfo
    \/ SerialGetWorldExists
    \/ GetWorldInfo
    \/ GetWorldBak
    \/ GetWorldBakInfo
    \/ SerialDeleteExists
    \/ DeleteProbe
    \/ DeleteRemove
    \/ DeleteBakExists
    \/ DeleteBakRemove
    \/ SerialCopyExists
    \/ CopyDestExists
    \/ CopyFile
    \/ CopyBakExists
    \/ CopyBak
    \/ CopyInfo
    \/ SerialCreateBackupExists
    \/ CreateBackupLaunch
    \/ CreateBackupFinish
    \/ CreateBackupList

SpecNames == Init /\ [][NextNames]_vars

\* the operations that run an external command
NextCommands ==
    \/ SerialStartProbe
    \/ StartCommand
    \/ SerialStopProbe
    \/ StopCommand
    \/ SerialRestartCommand
    \/ SerialRestoreExists
    \/ RestoreProbe
    \/ RestoreLaunch
    \/ RestoreFinish
    \/ SerialCreateExists
    \/ CreateLaunch
    \/ CreateFinish
    \/ CreateCheck
    \/ CreateInfo
    \/ SerialCreateBackupExists
    \/ CreateBackupLaunch
    \/ CreateBackupFinish
    \/ CreateBackupList
    \/ SerialCleanupLaunch
    \/ CleanupFinish

SpecCommands == Init /\ [][NextCommands]_vars

\* copy_world, create_world and delete_world, several requests at a time: the
\* handlers that put a world file in place or remove one
NextWorldWrites ==
    \/ CopyExists
    \/ CopyDestExists
    \/ CopyFile
    \/ CopyBakExists
    \/ CopyBak
    \/ CopyInfo
    \/ CreateExists
    \/ CreateLaunch
    \/ CreateFinish
    \/ CreateCheck
    \/ CreateInfo
    \/ DeleteExists
    \/ DeleteProbe
    \/ DeleteRemove
    \/ DeleteBakExists
    \/ DeleteBakRemove

SpecWorldWrites == Init /\ [][NextWorldWrites]_vars

\* copy_world and delete_world, one request at a time, from a world directory
\* in which Alpha has or has not yet got its .bak file
NextCopies ==
    \/ SerialCopyExists
    \/ CopyDestExists
    \/ CopyFile
    \/ CopyBakExists
    \/ CopyBak
    \/ CopyInfo
    \/ SerialDeleteExists
    \/ DeleteProbe
    \/ DeleteRemove
    \/ DeleteBakExists
    \/ DeleteBakRemove

InitCopies ==
    /\ alive \in BOOLEAN
    /\ environ \in [WORLD_NAME : {Alpha, Beta}, AUTOCREATE : {Str(2)},
                    DIFFICULTY : {Str(0)}, WORLD_SEED : {<<>>}]
    /\ wld = [n \in WorldFiles |-> IF n = Alpha THEN "v1" ELSE Absent]
    /\ bak \in {[n \in WorldFiles |-> IF n = Alpha THEN b ELSE Absent] :
                  b \in {"v0", Absent}}
    /\ backups = [f \in BackupFiles |-> IF f = BkAlpha THEN "v0" ELSE Absent]
    /\ logs = LogsAtStart
    /\ call = NoCall
    /\ handlers = EmptyBag

SpecCopies == InitCopies /\ [][NextCopies]_vars


\* ---------------------------------------------------------------- properties
Launched(h, cmd) == \E i \in 1..Len(h.calls) : h.calls[i].cmd = cmd

\* C1: a restore_backup request whose probe reports the server process alive is
\* rejected (400) whatever its force / no_backup flags are, has not launched
\* the restore script and has changed no file.
C1_RestoreRejectedWhenAlive ==
    \A h \in Handlers :
        (h.req.op = "restore" /\ h.running = "alive")
            => /\ h.pc = "done"
               /\ h.status = 400
               /\ ~Launched(h, "restore.sh")
               /\ h.touched = {}

C1_Witness ==
    \E h \in Handlers :
        /\ h.req.op = "restore" /\ h.req.no_backup
        /\ h.running = "alive" /\ h.status = 400
        /\ wld[Alpha] = "v1"

\* C2 as claimed: under every interleaving of requests, the restore script of
\* a request that has passed its liveness check (pgrep answered, and found no
\* server process) is never executing while the server process is alive.
C2_NoRestoreWhileAlive ==
    \A h \in Handlers :
        (h.pc = "restore_running" /\ h.result # Failed) => ~alive

\* C2 as amended: the restore script is launched only by a request whose own
\* probe, made after the check of the backup file and before the launch,
\* reported the process not alive.
C2_RestoreLaunchedAfterDeadProbe ==
    \A h \in Handlers :
        (h.pc \in {"restore_launch", "restore_running"} \/ Launched(h, "restore.sh"))
            => h.running = "dead"

C2_Witness ==
    \E h \in Handlers :
        h.pc = "restore_running" /\ h.running = "dead" /\ ~alive

\* C3, first half: delete_world on the active world whose probe reports the
\* process alive is rejected (400), its confirmation being right, and has
\* removed neither the .wld file nor the .bak file.
C3_ActiveDeleteRejectedWhenAlive ==
    \A h \in Handlers :
        (h.req.op = "delete_world" /\ h.running = "alive")
            => /\ h.pc = "done"
               /\ h.status = 400
               /\ h.touched = {}
               /\ h.req.confirm = Sanitize(h.req.name)
               /\ Sanitize(h.req.name) = ConfigWORLD_NAME

\* C3, second half as claimed: no step removes the active world's file in a
\* state where the process is alive.
C3_ActiveNeverRemovedWhileAlive ==
    [][\A n \in WorldFiles :
          (n = ConfigWORLD_NAME /\ wld[n] # Absent /\ wld'[n] = Absent) => ~alive]_vars

\* C3 as claimed: both halves.
C3_AsClaimed == [](C3_ActiveDeleteRejectedWhenAlive) /\ C3_ActiveNeverRemovedWhileAlive

\* C3 as amended: the first half, and the active world's files are removed
\* only by a request whose own probe reported the process not alive.
C3_ActiveRemovedOnlyAfterDeadProbe ==
    /\ C3_ActiveDeleteRejectedWhenAlive
    /\ \A h \in Handlers :
        (/\ h.req.op = "delete_world"
         /\ Sanitize(h.req.name) = ConfigWORLD_NAME
         /\ (h.pc \in {"delete_remove", "delete_bak_exists", "delete_bak_remove"}
                \/ h.touched # {}))
            => h.running = "dead"

C3_Witness ==
    \E h \in Handlers :
        /\ h.req.op = "delete_world" /\ h.running = "alive"
        /\ h.req.confirm = Sanitize(h.req.name)
        /\ h.status = 400 /\ alive
        /\ wld[ConfigWORLD_NAME] # Absent /\ bak[ConfigWORLD_NAME] # Absent

\* C4: delete_world removes files only when confirm equals the sanitized name
\* of the world; with any other confirm ("true", none) the request is rejected
\* (400, or 404 for a missing world) and has removed nothing.
C4_DeleteNeedsOwnName ==
    \A h \in Handlers :
        h.req.op = "delete_world"
            => /\ (h.touched # {} \/ h.status = 200)
                    => h.req.confirm = Sanitize(h.req.name)
               /\ (h.pc = "done" /\ h.req.confirm # Sanitize(h.req.name))
                    => (h.status \in {400, 404} /\ h.touched = {})

\* one request refused with confirm=true, then one that names the world
C4_Witness ==
    \E h, g \in Handlers :
        /\ h.req.op = "delete_world" /\ h.req.confirm = TrueText
        /\ Sanitize(h.req.name) = Alpha
        /\ h.pc = "done" /\ h.status = 400 /\ h.touched = {}
        /\ g.req.op = "delete_world" /\ g.req.confirm = Alpha
        /\ Sanitize(g.req.name) = Alpha
        /\ g.pc = "done" /\ g.status = 200
        /\ g.touched = {<<"wld", Alpha>>, <<"bak", Alpha>>}

\* C5: a create_world request whose <sanitized name>.wld was there when the
\* handler looked is answered 409, has launched no script and has written no
\* file; and no request gets 409 otherwise.
C5_CreateConflict ==
    \A h \in Handlers :
        h.req.op = "create_world"
            => /\ h.existed = "yes"
                    => (h.pc = "done" /\ h.status = 409
                            /\ h.calls = <<>> /\ h.touched = {})
               /\ h.status = 409 => h.existed = "yes"

C5_Witness ==
    \E h \in Handlers :
        /\ h.req.op = "create_world" /\ h.status = 409
        /\ h.req.name # Sanitize(h.req.name)
        /\ h.existed = "yes"
        /\ wld[Sanitize(h.req.name)] = "v1"

\* C6: create_world answers 201 exactly when <sanitized name>.wld was there
\* when the handler looked after the script had returned (and was still there
\* when it read the file's size), whatever the script's exit status was.
C6_CreateSuccessIsFileExistence ==
    \A h \in Handlers :
        (h.req.op = "create_world" /\ h.pc = "done" /\ h.seen # "unset")
            => (h.status = 201 <=> h.seen = "yes")

\* one request answered 201 though the script failed, another answered 500
\* though the script succeeded
C6_Witness ==
    \E h, g \in Handlers :
        /\ h.req.op = "create_world" /\ h.pc = "done"
        /\ Launched(h, "world-manager.sh")
        /\ h.status = 201 /\ ~h.result.success
        /\ g.req.op = "create_world" /\ g.pc = "done"
        /\ Launched(g, "world-manager.sh")
        /\ g.status = 500 /\ g.result.success

\* C7 as claimed: the world-creation script runs with the request's sanitized
\* name, validated size, validated difficulty and seed as its WORLD_NAME,
\* AUTOCREATE, DIFFICULTY and WORLD_SEED.
C7_ScriptGetsRequestedWorld ==
    \A h \in Handlers : \A i \in 1..Len(h.calls) :
        h.calls[i].cmd = "world-manager.sh"
            => /\ h.calls[i].env.WORLD_NAME = Sanitize(h.req.name)
               /\ h.calls[i].env.AUTOCREATE = Str(ValidSize(h.req.size))
               /\ h.calls[i].env.DIFFICULTY = Str(ValidDifficulty(h.req.difficulty))
               /\ h.req.seed # <<>> => h.calls[i].env.WORLD_SEED = h.req.seed

\* C8: a start request whose probe reports the process alive is answered with
\* a failure (400) and has not invoked supervisorctl.
C8_StartWhenAliveIsNoOp ==
    \A h \in Handlers :
        (h.req.op = "start" /\ h.running = "alive")
            => (h.pc = "done" /\ h.status = 400 /\ h.calls = <<>>)

C8_Witness ==
    \E h \in Handlers :
        h.req.op = "start" /\ h.running = "alive" /\ h.status = 400 /\ alive

\* C9: a stop request whose probe reports the process not alive is answered
\* with a failure (400) and has not invoked supervisorctl.
C9_StopWhenDeadIsNoOp ==
    \A h \in Handlers :
        (h.req.op = "stop" /\ h.running = "dead")
            => (h.pc = "done" /\ h.status = 400 /\ h.calls = <<>>)

C9_Witness ==
    \E h \in Handlers :
        h.req.op = "stop" /\ h.running = "dead" /\ h.status = 400 /\ ~alive

\* C10: start answers 200 whenever supervisorctl's answer says "already
\* started", stop whenever it says "already stopped", a failed exit status
\* notwithstanding; every other failed exit status is answered with 500.
C10_IdempotentAnswers ==
    \A h \in Handlers :
        (h.pc = "done" /\ Launched(h, "supervisorctl"))
            => /\ (h.req.op = "start" /\ h.result.stdout = OutAlreadyStarted)
                    => h.status = 200
               /\ (h.req.op = "stop" /\ h.result.stdout = OutAlreadyStopped)
                    => h.status = 200
               /\ (/\ ~h.result.success
                   /\ ~(h.req.op = "start" /\ h.result.stdout = OutAlreadyStarted)
                   /\ ~(h.req.op = "stop" /\ h.result.stdout = OutAlreadyStopped))
                    => h.status = 500

\* two starts that both found the process not alive: the second is told
\* "already started" with a failed exit status
C10_Witness ==
    \E h, g \in Handlers :
        /\ h # g
        /\ h.req.op = "start" /\ h.pc = "done" /\ h.result.success
        /\ g.req.op = "start" /\ g.pc = "done" /\ ~g.result.success
        /\ g.result.stdout = OutAlreadyStarted /\ g.status = 200

\* everything pgrep -f TerrariaServer can return through run_command
ProbeResults == {Result(TRUE, OutPid, <<>>), Result(FALSE, <<>>, <<>>), Failed}

\* C11 as claimed: a start, stop or restart request that has run its
\* supervisor command answers only after it has probed the process state
\* again, so that what run_command last returned to it is a probe's result and
\* not the command's.
C11_ReprobesBeforeReporting ==
    \A h \in Handlers :
        (/\ h.req.op \in {"start", "stop", "restart"}
         /\ h.pc = "done"
         /\ Launched(h, "supervisorctl"))
            => h.result \in ProbeResults

\* C12 as claimed: delete_backup removes the backup file only when confirm is
\* the literal string "true"; a request for a backup that is there with any
\* other confirm, or with none, is answered 400 and has removed nothing.
C12_DeleteBackupNeedsLiteralTrue ==
    \A h \in Handlers :
        (h.req.op = "delete_backup" /\ h.pc = "done" /\ h.existed = "yes")
            => (h.req.confirm # TrueText => (h.status = 400 /\ h.touched = {}))

\* C12 as amended: the same, with confirm compared after str.lower(), so that
\* "TRUE" confirms as "true" does.
C12_DeleteBackupNeedsTrueInAnyCase ==
    \A h \in Handlers :
        (h.req.op = "delete_backup" /\ h.pc = "done" /\ h.existed = "yes")
            => IF Lower(h.req.confirm) = TrueText
               THEN /\ h.touched \subseteq {<<"backup", h.req.name>>}
                    /\ h.status = 200 <=> h.touched # {}
               ELSE h.status = 400 /\ h.touched = {}

\* a backup removed on confirm=TRUE
C12_Witness ==
    \E h \in Handlers :
        /\ h.req.op = "delete_backup" /\ h.req.confirm = TrueUpper
        /\ h.pc = "done" /\ h.status = 200
        /\ h.touched = {<<"backup", BkAlpha>>} /\ backups[BkAlpha] = Absent

\* ---------------------------------------------------------------- clear_log
\* log_files of clear_log: the logs that may be cleared
ClearLogFiles ==
    [n \in {<<"c", "r", "a", "s", "h">>, <<"c", "r", "a", "s", "h", "e", "s">>, <<"b", "a", "c", "k", "u", "p">>, <<"r", "e", "s", "t", "o", "r", "e">>, <<"w", "o", "r", "l", "d">>} |->
        CASE n = <<"c", "r", "a", "s", "h">> -> "crashes.log"
          [] n = <<"c", "r", "a", "s", "h", "e", "s">> -> "crashes.log"
          [] n = <<"b", "a", "c", "k", "u", "p">> -> "backup.log"
          [] n = <<"r", "e", "s", "t", "o", "r", "e">> -> "restore.log"
          [] OTHER -> "world-manager.log"]

ClearLogTypeGate(log_type) == IF log_type \notin DOMAIN ClearLogFiles THEN 400 ELSE 0
ClearLogConfirmGate_Off(confirm) == 0
ClearLogConfirmGate(confirm) ==
    IF Lower(IF confirm = <<>> THEN FalseText ELSE confirm) # TrueText THEN 400 ELSE 0

ClearLogCheck ==
    /\ \E q \in Route("clear_log") :
        LET code == ClearLogTypeGate(q.name)
        IN  Accept(Proceed(New(q), IF code # 0 THEN code
                                   ELSE ClearLogConfirmGate(q.confirm),
                           "clear_log_truncate"))
    /\ UNCHANGED shared

\* with open(filepath, 'w') as f: f.write(''); an exception is answered 500
ClearLogTruncate ==
    /\ \E h \in Handlers :
        /\ h.pc = "clear_log_truncate"
        /\ LET filename == ClearLogFiles[h.req.name]
           IN  \/ /\ logs' = [logs EXCEPT ![filename] = LogFile(TRUE, <<>>)]
                  /\ Step(h, Respond([h EXCEPT !.touched = @ \cup {<<"log", <<filename>>>>}],
                                     200))
               \/ /\ Step(h, Respond(h, 500))
                  /\ UNCHANGED logs
    /\ UNCHANGED <<alive, environ, wld, bak, backups, call>>

NextLogs ==
    \/ ClearLogCheck
    \/ ClearLogTruncate

SpecLogs == Init /\ [][NextLogs]_vars

SerialClearLogCheck == ClearLogCheck /\ OneAtATime'

\* every operation that acts on the server, the worlds, the backups or the logs
NextOperations ==
    \/ SerialStartProbe
    \/ StartCommand
    \/ SerialStopProbe
    \/ StopCommand
    \/ SerialRestartCommand
    \/ SerialRestoreExists
    \/ RestoreProbe
    \/ RestoreLaunch
    \/ RestoreFinish
    \/ SerialCreateExists
    \/ CreateLaunch
    \/ CreateFinish
    \/ CreateCheck
    \/ CreateInfo
    \/ SerialDeleteExists
    \/ DeleteProbe
    \/ DeleteRemove
    \/ DeleteBakExists
    \/ DeleteBakRemove
    \/ SerialCopyExists
    \/ CopyDestExists
    \/ CopyFile
    \/ CopyBakExists
    \/ CopyBak
    \/ CopyInfo
    \/ SerialDeleteBackupExists
    \/ DeleteBackupRemove
    \/ SerialCreateBackupExists
    \/ CreateBackupLaunch
    \/ CreateBackupFinish
    \/ CreateBackupList
    \/ SerialCleanupLaunch
    \/ CleanupFinish
    \/ SerialClearLogCheck
    \/ ClearLogTruncate

\* ... with Alpha the configured world
InitOperations == Init /\ environ.WORLD_NAME = Alpha

SpecOperations == InitOperations /\ [][NextOperations]_vars

\* --------------------------------------------- the functions on their own
\* The functions below read nothing but their arguments. `call' holds one
\* application: the arguments, how far it has got, and what it returned.
OtherState ==
    /\ alive \in BOOLEAN
    /\ environ \in [WORLD_NAME : {Alpha}, AUTOCREATE : {Str(2)},
                    DIFFICULTY : {Str(0)}, WORLD_SEED : {<<>>}]
    /\ wld = [n \in WorldFiles |-> IF n = Alpha THEN "v1" ELSE Absent]
    /\ bak = [n \in WorldFiles |-> IF n = Alpha THEN "v0" ELSE Absent]
    /\ backups = [f \in BackupFiles |-> IF f = BkAlpha THEN "v0" ELSE Absent]
    /\ logs = LogsAtStart
    /\ handlers = EmptyBag

Returns(c) ==
    /\ call' = c
    /\ UNCHANGED <<alive, environ, wld, bak, backups, logs, handlers>>

\* re.sub(r'[^a-zA-Z0-9_-]', '', name) on any string
NameInputChars == {"a", "Z", "5", "_", "-", " ", "!", "/", ".", "\n"}
NameInputs == UNION {[1..n -> NameInputChars] : n \in 0..MaxNameLen}
SanitizeCalls ==
    {[fn |-> "sanitize", arg |-> s, out |-> <<>>, again |-> <<>>, step |-> 0] :
        s \in NameInputs}

SanitizeName ==
    /\ call.fn = "sanitize" /\ call.step = 0
    /\ Returns([call EXCEPT !.out = Sanitize(call.arg), !.step = 1])

\* ... and on its own result
SanitizeAgain ==
    /\ call.fn = "sanitize" /\ call.step = 1
    /\ Returns([call EXCEPT !.again = Sanitize(call.out), !.step = 2])

\* parse_backup_filename
BackupPrefix == <<"b", "a", "c", "k", "u", "p", "_">>
Tar == <<".", "t", "a", "r">>
TarGz == <<".", "t", "a", "r", ".", "g", "z">>
EndsWith(s, suffix) ==
    Len(s) >= Len(suffix) /\ SubSeq(s, Len(s) - Len(suffix) + 1, Len(s)) = suffix
StartsWith(s, prefix) ==
    Len(s) >= Len(prefix) /\ SubSeq(s, 1, Len(prefix)) = prefix
\* \d{n}
AllDigits(s) == \A i \in 1..Len(s) : s[i] \in Range(DIGITS)
\* . matches every character but the newline
NoNewline(s) == \A i \in 1..Len(s) : s[i] # "\n"

NoMatch == [matched |-> FALSE, world_name |-> <<>>, date |-> <<>>, time |-> <<>>]

\* backup_(.+)_(\d{8})_(\d{6})\.tar(?:\.gz)? matched against the whole of body:
\* the extension fixes where the time, the date and the world lie.
MatchBody(body) ==
    LET ext == IF EndsWith(body, TarGz) THEN TarGz
               ELSE IF EndsWith(body, Tar) THEN Tar ELSE <<>>
        stem == SubSeq(body, 1, Len(body) - Len(ext))
        n == Len(stem)
    IN  IF /\ ext # <<>>
           /\ n >= Len(BackupPrefix) + 1 + 1 + 8 + 1 + 6
           /\ StartsWith(stem, BackupPrefix)
           /\ stem[n - 6] = "_" /\ AllDigits(SubSeq(stem, n - 5, n))
           /\ stem[n - 15] = "_" /\ AllDigits(SubSeq(stem, n - 14, n - 7))
           /\ NoNewline(SubSeq(stem, Len(BackupPrefix) + 1, n - 16))
        THEN [matched |-> TRUE,
              world_name |-> SubSeq(stem, Len(BackupPrefix) + 1, n - 16),
              date |-> SubSeq(stem, n - 14, n - 7),
              time |-> SubSeq(stem, n - 5, n)]
        ELSE NoMatch

\* $ of re.match: the end of the string, or just before a newline that ends it
DollarBodies(filename) ==
    {filename} \cup
    (IF Len(filename) > 0 /\ filename[Len(filename)] = "\n"
     THEN {SubSeq(filename, 1, Len(filename) - 1)} ELSE {})

parse_backup_filename(filename) ==
    IF \E b \in DollarBodies(filename) : MatchBody(b).matched
    THEN MatchBody(CHOOSE b \in DollarBodies(filename) : MatchBody(b).matched)
    ELSE NoMatch

ParseInputs ==
    {pre \o w \o <<"_">> \o d \o <<"_">> \o t \o ext \o tail :
        pre \in {BackupPrefix, <<"b", "a", "c", "k", "u", "p", "-">>},
        w \in {Alpha, <<"a", "_", "b">>, <<"w", "_", "2", "0", "2", "6", "0", "1", "0", "1", "_", "0", "0", "0", "0", "0", "0">>, <<>>},
        d \in {<<"2", "0", "2", "6", "0", "1", "0", "2">>, <<"2", "0", "2", "6", "0", "1", "0">>, <<"2", "0", "2", "6", "0", "1", "0", "x">>},
        t \in {<<"0", "1", "0", "2", "0", "3">>, <<"0", "1", "0", "2", "0">>},
        ext \in {Tar, TarGz, <<".", "z", "i", "p">>, <<".", "g", "z">>},
        tail \in {<<>>, <<"\n">>, <<"x">>}}
ParseCalls ==
    {[fn |-> "parse_backup_filename", arg |-> f, out |-> NoMatch, step |-> 0] :
        f \in ParseInputs}

ParseBackupFilename ==
    /\ call.fn = "parse_backup_filename" /\ call.step = 0
    /\ Returns([call EXCEPT !.out = parse_backup_filename(call.arg), !.step = 1])

\* list_backups: what os.listdir and os.stat give it, the world filter, limit
NotesTxt == <<"n", "o", "t", "e", "s", ".", "t", "x", "t">>
DirNames == {BkAlpha, BkPreRestore, BkAlphaNew, BkBetaNew, NotesTxt}
Mtimes == {1, 2}
DirEntries == [filename : DirNames, modified : Mtimes]
\* a directory holds a name once; os.listdir gives the names in any order
Listings ==
    {l \in UNION {[1..n -> DirEntries] : n \in 0..MaxBackups} :
        \A i, j \in 1..Len(l) : l[i].filename = l[j].filename => i = j}
\* request.args.get('limit', type=int): None when absent or not an integer
NoLimit == [given |-> FALSE, value |-> 0]
Limits == {NoLimit} \cup {[given |-> TRUE, value |-> n] : n \in -1..(MaxBackups + 1)}
ListBackupsCalls ==
    {[fn |-> "list_backups", listing |-> l, world |-> w, limit |-> k,
      out |-> <<>>, step |-> 0] :
        l \in Listings, w \in {<<>>, Alpha}, k \in Limits}

\* the loop over os.listdir: the files that are backups of the wanted world
IsListed(e, world_filter) ==
    /\ StartsWith(e.filename, BackupPrefix)
    /\ EndsWith(e.filename, TarGz) \/ EndsWith(e.filename, Tar)
    /\ parse_backup_filename(e.filename).matched
    /\ world_filter # <<>>
        => parse_backup_filename(e.filename).world_name = world_filter
ListedEntry(e) ==
    [filename |-> e.filename,
     world_name |-> parse_backup_filename(e.filename).world_name,
     created |-> e.modified]
Collect(listing, world_filter) ==
    LET kept == SelectSeq(listing, LAMBDA e : IsListed(e, world_filter))
    IN  [i \in 1..Len(kept) |-> ListedEntry(kept[i])]

\* backups.sort(key=lambda b: b['created'], reverse=True): newest first,
\* entries of the same time in the order they had
SortPlace(b, i) ==
    Cardinality({j \in 1..Len(b) : b[j].created > b[i].created})
    + Cardinality({j \in 1..(i - 1) : b[j].created = b[i].created}) + 1
SortNewestFirst(b) ==
    [k \in 1..Len(b) |-> b[CHOOSE i \in 1..Len(b) : SortPlace(b, i) = k]]

\* if limit and limit > 0: backups = backups[:limit]
ApplyLimit_Never(b, limit) == b
ApplyLimit(b, limit) ==
    IF limit.given /\ limit.value # 0 /\ limit.value > 0
    THEN SubSeq(b, 1, IF limit.value < Len(b) THEN limit.value ELSE Len(b))
    ELSE b

ListBackups ==
    /\ call.fn = "list_backups" /\ call.step = 0
    /\ Returns([call EXCEPT
            !.out = ApplyLimit(SortNewestFirst(Collect(call.listing, call.world)),
                               call.limit),
            !.step = 1])

\* get_log, once the file is known to exist: the lines of the file (each
\* stands for itself by its 0-based index), ?lines= and ?offset=
LinesDefault == 100
LinesCap == 1000
FileOf(total) == [i \in 1..total |-> i - 1]
GetLogCalls ==
    {[fn |-> "get_log", all_lines |-> FileOf(t), lines |-> n, offset |-> o,
      out |-> [selected |-> <<>>, total_lines |-> 0, start_line |-> 0],
      step |-> 0] :
        t \in 0..MaxLines \cup {LinesCap + 1},
        n \in -1..(MaxLines + 1) \cup {LinesDefault, LinesCap, LinesCap + 1},
        o \in -1..(MaxLines + 1)}

Min(a, b) == IF a < b THEN a ELSE b
Max(a, b) == IF a > b THEN a ELSE b

\* s[a:b] of Python: a negative index counts from the end, and every index is
\* brought into 0..len(s)
SliceIndex(s, x) == IF x < 0 THEN Max(x + Len(s), 0) ELSE Min(x, Len(s))
Slice(s, a, b) == SubSeq(s, SliceIndex(s, a) + 1, SliceIndex(s, b))

\* lines = min(request.args.get('lines', 100, type=int), 1000)
LogWindow_Uncapped(lines) == lines
LogWindow(lines) == Min(lines, LinesCap)

get_log(all_lines, lines_arg, offset_arg) ==
    LET lines == LogWindow(lines_arg)
        offset == Max(offset_arg, 0)
        total_lines == Len(all_lines)
    IN  IF offset = 0
        THEN [selected |-> IF lines < total_lines
                           THEN Slice(all_lines, -lines, total_lines)
                           ELSE all_lines,
              total_lines |-> total_lines,
              start_line |-> Max(total_lines - lines, 0)]
        ELSE [selected |-> Slice(all_lines, offset, offset + lines),
              total_lines |-> total_lines,
              start_line |-> offset]

GetLog ==
    /\ call.fn = "get_log" /\ call.step = 0
    /\ Returns([call EXCEPT
            !.out = get_log(call.all_lines, call.lines, call.offset),
            !.step = 1])

\* create_backup, after the script succeeded: the files of the backup
\* directory, each with the time os.stat gives for it
ShownBackups == 5
Stamp(day) == <<"_", "2", "0", "2", "6", "0", "1", "0", day, "_", "0", "0", "0", "0", "0", "0">>
BkBeta(day) == BackupPrefix \o Beta \o Stamp(day) \o TarGz
ShownNames ==
    {BkAlphaNew, NotesTxt, BkBeta("1"), BkBeta("2"), BkBeta("3"), BkBeta("4"),
     BkBeta("5")}
BackupDirs == UNION {[names -> Mtimes] : names \in SUBSET ShownNames}
NewBackupsCalls ==
    {[fn |-> "new_backups", dir |-> d, first |-> <<>>, out |-> <<>>, step |-> 0] :
        d \in BackupDirs}

\* the order of str in Python: by code point, a proper prefix first
CodePoints == <<"-", ".">> \o DIGITS \o UPPER \o <<"_">> \o LOWER
Ord(c) == CHOOSE i \in 1..Len(CodePoints) : CodePoints[i] = c
NameLess(a, b) ==
    \E i \in 1..(Min(Len(a), Len(b)) + 1) :
        /\ SubSeq(a, 1, i - 1) = SubSeq(b, 1, i - 1)
        /\ \/ i > Len(a) /\ i <= Len(b)
           \/ i <= Len(a) /\ i <= Len(b) /\ Ord(a[i]) < Ord(b[i])

\* sorted(os.listdir(Config.BACKUP_DIR), reverse=True)
SortedReverse(names) ==
    [k \in 1..Cardinality(names) |->
        CHOOSE n \in names : Cardinality({m \in names : NameLess(n, m)}) = k - 1]

\* the loop of create_backup over the first names of that order
new_backups(first) ==
    LET kept == SelectSeq(first, LAMBDA f : /\ StartsWith(f, BackupPrefix)
                                            /\ parse_backup_filename(f).matched)
    IN  [i \in 1..Len(kept) |->
            [filename |-> kept[i],
             world_name |-> parse_backup_filename(kept[i]).world_name]]

NewBackupsSort ==
    /\ call.fn = "new_backups" /\ call.step = 0
    /\ Returns([call EXCEPT
            !.first = Slice(SortedReverse(DOMAIN call.dir), 0, ShownBackups),
            !.step = 1])

NewBackups ==
    /\ call.fn = "new_backups" /\ call.step = 1
    /\ Returns([call EXCEPT !.out = new_backups(call.first), !.step = 2])

InitNewBackups == OtherState /\ call \in NewBackupsCalls

NextNewBackups ==
    \/ NewBackupsSort
    \/ NewBackups

SpecNewBackups == InitNewBackups /\ [][NextNewBackups]_vars

InitFunctions ==
    /\ OtherState
    /\ \/ call \in SanitizeCalls
       \/ call \in ParseCalls
       \/ call \in ListBackupsCalls
       \/ call \in GetLogCalls

NextFunctions ==
    \/ SanitizeName
    \/ SanitizeAgain
    \/ ParseBackupFilename
    \/ ListBackups
    \/ GetLog

SpecFunctions == InitFunctions /\ [][NextFunctions]_vars

\* -------------------------------------------------------------- search_logs
\* One search, line by line: the directory as os.listdir gives it, ?q=, ?log=
\* and ?limit=; the loop's position; the results so far. `late' records that
\* a file was opened or a line read when len(results) >= limit already held.
SearchDefault == 50
SearchCap == 200
HitLine == <<"A", "n", " ", "E", "R", "R", "O", "R", " ", "h", "e", "r", "e", "\n">>
MissLine == <<"a", "l", "l", " ", "i", "s", " ", "w", "e", "l", "l", "\n">>
SearchQuery == <<"E", "r", "r", "o", "r">>
LineSeqs == UNION {[1..n -> {HitLine, MissLine}] : n \in 0..MaxSearchLines}
SearchDirs ==
    {<<[name |-> "crashes.log", lines |-> a, readable |-> r],
       [name |-> "backup.log", lines |-> b, readable |-> TRUE]>> :
        a \in LineSeqs, b \in LineSeqs, r \in BOOLEAN}
SearchCalls ==
    {[fn |-> "search_logs", dir |-> d, q |-> q, log |-> l, limit |-> k,
      results |-> <<>>, file |-> 0, line |-> 0, late |-> FALSE,
      step |-> "start", status |-> 0] :
        d \in SearchDirs, q \in {<<>>, SearchQuery}, l \in {"", "backup.log"},
        k \in -1..(MaxSearchLines + 1) \cup {SearchDefault, SearchCap + 1}}

\* limit = min(request.args.get('limit', 50, type=int), 200); no query: 400
SearchStart ==
    /\ call.fn = "search_logs" /\ call.step = "start"
    /\ Returns(IF call.q = <<>>
               THEN [call EXCEPT !.step = "done", !.status = 400]
               ELSE [call EXCEPT !.step = "next", !.limit = Min(call.limit, SearchCap)])

\* for filename in os.listdir(...): the files that are not wanted and those
\* that cannot be opened are passed over
SearchNextFile ==
    /\ call.fn = "search_logs" /\ call.step = "next"
    /\ Returns(
        IF call.file = Len(call.dir)
        THEN [call EXCEPT !.step = "done", !.status = 200]
        ELSE LET f == call.dir[call.file + 1]
             IN  IF call.log # "" /\ f.name # call.log
                 THEN [call EXCEPT !.file = @ + 1]
                 ELSE IF ~f.readable
                 THEN [call EXCEPT !.file = @ + 1,
                                   !.late = @ \/ Len(call.results) >= call.limit]
                 ELSE [call EXCEPT !.file = @ + 1, !.line = 0, !.step = "reading",
                                   !.late = @ \/ Len(call.results) >= call.limit])

SearchMatches(q, line) == Contains(Lower(q), Lower(line))

\* for line_num, line in enumerate(f, 1): ...; and the test after the file
SearchLine ==
    /\ call.fn = "search_logs" /\ call.step = "reading"
    /\ LET f == call.dir[call.file]
           after(c) == IF Len(c.results) >= c.limit
                       THEN [c EXCEPT !.step = "done", !.status = 200]
                       ELSE [c EXCEPT !.step = "next"]
       IN  Returns(
            IF call.line = Len(f.lines)
            THEN after(call)
            ELSE LET line == f.lines[call.line + 1]
                     read == [call EXCEPT !.line = @ + 1,
                                  !.late = @ \/ Len(call.results) >= call.limit]
                     found == [read EXCEPT !.results = Append(@,
                                  [log |-> f.name, line_number |-> call.line + 1,
                                   content |-> Strip(line)])]
                 IN  IF SearchMatches(call.q, line)
                     THEN IF Len(found.results) >= found.limit
                          THEN after(found)
                          ELSE found
                     ELSE read)

InitSearch ==
    /\ OtherState
    /\ call \in SearchCalls

NextSearch ==
    \/ SearchStart
    \/ SearchNextFile
    \/ SearchLine

SpecSearch == InitSearch /\ [][NextSearch]_vars

\* ---------------------------------------------------- get_supervisor_status
\* The output of `supervisorctl status` as a text of pieces: a blank, a line
\* end, or a run of other characters (web, RUNNING); pieces side by side make
\* one longer word.
RUNNING == <<"RUNNING">>
OutputPieces == {" ", "\n", "web", "RUNNING"}
Outputs == UNION {[1..n -> OutputPieces] : n \in 0..MaxOutput}

\* str.split(sep)
RECURSIVE SplitOn(_, _)
SplitOn(s, sep) ==
    IF \E i \in 1..Len(s) : s[i] = sep
    THEN LET i == CHOOSE i \in 1..Len(s) :
                    s[i] = sep /\ \A j \in 1..(i - 1) : s[j] # sep
         IN  <<SubSeq(s, 1, i - 1)>> \o SplitOn(SubSeq(s, i + 1, Len(s)), sep)
    ELSE <<s>>

\* str.split(): the runs of characters that are not whitespace
RECURSIVE Words(_)
Words(s) ==
    IF s = <<>> THEN <<>>
    ELSE IF IsSpace(Head(s)) THEN Words(Tail(s))
    ELSE LET n == CHOOSE n \in 1..Len(s) :
                    /\ \A j \in 1..n : ~IsSpace(s[j])
                    /\ n = Len(s) \/ IsSpace(s[n + 1])
         IN  <<SubSeq(s, 1, n)>> \o Words(SubSeq(s, n + 1, Len(s)))

\* ' '.join(parts)
RECURSIVE Join(_)
Join(parts) ==
    IF parts = <<>> THEN <<>>
    ELSE IF Len(parts) = 1 THEN parts[1]
    ELSE parts[1] \o <<" ">> \o Join(Tail(parts))

\* state == 'RUNNING'
IsRunning_Prefix(state) == Head(state) = Head(RUNNING)
IsRunning(state) == state = RUNNING

\* the dict entry of a line of at least two words
ProgramEntry(parts) ==
    [name |-> parts[1],
     state |-> parts[2],
     running |-> IsRunning(parts[2]),
     details |-> IF Len(parts) > 2 THEN Join(SubSeq(parts, 3, Len(parts))) ELSE <<>>]

\* the loop over the lines; programs is the dict so far, a set of entries of
\* distinct names
RECURSIVE Programs(_, _)
Programs(lines, programs) ==
    IF lines = <<>> THEN programs
    ELSE LET line == Head(lines)
             parts == Words(line)
         IN  IF Strip(line) = <<>> THEN Programs(Tail(lines), programs)
             ELSE IF Len(parts) >= 2
             THEN Programs(Tail(lines),
                           {e \in programs : e.name # parts[1]}
                               \cup {ProgramEntry(parts)})
             ELSE Programs(Tail(lines), programs)

\* none stands for the None that is returned when the command failed
get_supervisor_status(success, stdout) ==
    IF ~success THEN [none |-> TRUE, programs |-> {}]
    ELSE [none |-> FALSE, programs |-> Programs(SplitOn(Strip(stdout), "\n"), {})]

\* supervisorctl prints a line for each program, no program twice
ProgramLines(stdout) ==
    LET lines == SplitOn(Strip(stdout), "\n")
    IN  {i \in 1..Len(lines) : Len(Words(lines[i])) >= 2}
OneLineEach(stdout) ==
    LET lines == SplitOn(Strip(stdout), "\n")
    IN  \A i, j \in ProgramLines(stdout) :
            Words(lines[i])[1] = Words(lines[j])[1] => i = j
WebRunning == <<"web", " ", "RUNNING">>
StatusCalls ==
    {[fn |-> "get_supervisor_status", success |-> ok, stdout |-> o,
      out |-> [none |-> TRUE, programs |-> {}], step |-> 0] :
        ok \in {TRUE}, o \in {o \in Outputs : OneLineEach(o)}}
      \cup {[fn |-> "get_supervisor_status", success |-> FALSE, stdout |-> o,
             out |-> [none |-> TRUE, programs |-> {}], step |-> 0] :
                o \in {<<>>, WebRunning}}

GetSupervisorStatus ==
    /\ call.fn = "get_supervisor_status" /\ call.step = 0
    /\ Returns([call EXCEPT
            !.out = get_supervisor_status(call.success, call.stdout),
            !.step = 1])

\* the next call, the command printing something else
GetSupervisorStatusAgain ==
    /\ call.fn = "get_supervisor_status" /\ call.step = 1
    /\ \E o \in {<<>>, WebRunning, <<"RUNNING", " ", "web", " ", "web", " ", "web">>} :
        Returns([call EXCEPT
            !.stdout = o,
            !.out = get_supervisor_status(call.success, o),
            !.step = 2])

InitStatus == OtherState /\ call \in StatusCalls

NextStatus ==
    \/ GetSupervisorStatus
    \/ GetSupervisorStatusAgain

SpecStatus == InitStatus /\ [][NextStatus]_vars

\* ------------------------------------------ get_config and update_config
\* int(text) of the one-digit settings
IntOf(text) == CHOOSE n \in 0..9 : Str(n) = text

\* class Config: the settings as os.environ had them when the module was
\* imported
ConfigAtImport(env) ==
    [DIFFICULTY |-> IntOf(env.DIFFICULTY), AUTOCREATE |-> IntOf(env.AUTOCREATE)]

\* allowed_updates, the integer settings that os.environ holds here
allowed_updates ==
    [difficulty |-> [env_key |-> "DIFFICULTY", min_val |-> 0, max_val |-> 3],
     autocreate |-> [env_key |-> "AUTOCREATE", min_val |-> 1, max_val |-> 3]]
ConfigKeys == {"difficulty", "autocreate", "colour"}
\* a JSON value: an integer, or something int() raises on
NotANumber == [int |-> FALSE, v |-> 0]
ConfigValues == {NotANumber} \cup [int : {TRUE}, v : -1..5]

\* typed_value after the two comparisons with min_val and max_val
Clamp(typed_value, min_val, max_val) ==
    IF typed_value < min_val THEN min_val
    ELSE IF typed_value > max_val THEN max_val
    ELSE typed_value

\* whether the loop of update_config appends the key to updated
Updates(key, value) == key \in DOMAIN allowed_updates /\ value.int

\* PUT /api/config with a body of one key; Config is left as it was
UpdateConfig ==
    /\ \E key \in ConfigKeys, value \in ConfigValues :
        /\ environ' =
            IF Updates(key, value)
            THEN LET a == allowed_updates[key]
                     typed_value == Clamp(value.v, a.min_val, a.max_val)
                 IN  IF a.env_key = "DIFFICULTY"
                     THEN [environ EXCEPT !.DIFFICULTY = Str(typed_value)]
                     ELSE [environ EXCEPT !.AUTOCREATE = Str(typed_value)]
            ELSE environ
        /\ call' = [call EXCEPT !.fn = "update_config", !.key = key, !.value = value,
                                !.status = IF Updates(key, value) THEN 200 ELSE 400]
    /\ UNCHANGED <<alive, wld, bak, backups, logs, handlers>>

\* GET /api/config: 'difficulty': Config.DIFFICULTY, 'autocreate': Config.AUTOCREATE
GetConfig ==
    /\ call' = [call EXCEPT !.fn = "get_config", !.status = 200,
                            !.server = [difficulty |-> call.Config.DIFFICULTY,
                                        autocreate |-> call.Config.AUTOCREATE]]
    /\ UNCHANGED <<alive, environ, wld, bak, backups, logs, handlers>>

InitConfig ==
    /\ OtherState
    /\ call = [fn |-> "import", Config |-> ConfigAtImport(environ),
               key |-> "colour", value |-> NotANumber, status |-> 0,
               server |-> [difficulty |-> 0, autocreate |-> 0]]

NextConfig ==
    \/ UpdateConfig
    \/ GetConfig

SpecConfig == InitConfig /\ [][NextConfig]_vars

\* ------------------------------------------------------------- require_auth
\* What a header can hold in place of a token: nothing, a JWT signed with
\* another key (or a string that is no JWT), a JWT signed with
\* Config.SECRET_KEY; exp is the JWT's claim.
Times == {1, 2}
NoToken == [kind |-> "absent", exp |-> 0]
EmptyToken == [kind |-> "empty", exp |-> 0]
Tokens == {EmptyToken, [kind |-> "forged", exp |-> 2]} \cup [kind : {"signed"}, exp : Times]
\* Authorization: absent, `Basic ...`, `Bearer <token>`
AuthorizationHeaders ==
    {[scheme |-> "absent", token |-> NoToken], [scheme |-> "Basic", token |-> EmptyToken]}
        \cup [scheme : {"Bearer"}, token : Tokens]
ApiTokenHeaders == {NoToken} \cup Tokens

\* jwt.decode(token, Config.SECRET_KEY, algorithms=['HS256']): the signature,
\* then the exp claim
verify_token_NoExpiry(token, now) ==
    IF token.kind # "signed" THEN "InvalidTokenError" ELSE "payload"
verify_token(token, now) ==
    IF token.kind # "signed" THEN "InvalidTokenError"
    ELSE IF token.exp <= now THEN "ExpiredSignatureError"
    ELSE "payload"

\* `if not token`: None and the empty string
Falsy(token) == token.kind \in {"absent", "empty"}

\* decorated(): 0 when it goes on to call f, or the status it returns
require_auth(authorization, x_api_token, now) ==
    LET bearer == IF authorization.scheme = "Bearer" THEN authorization.token
                  ELSE NoToken
        token == IF Falsy(bearer) THEN x_api_token ELSE bearer
    IN  IF Falsy(token) THEN 401
        ELSE IF verify_token(token, now) = "payload" THEN 0
        ELSE 401

\* A request of a client that waits for each answer arrives with its headers
\* at time now and the decorator decides; passed counts the requests for which
\* it went on to the body.
NoAuth ==
    [fn |-> "require_auth", authorization |-> [scheme |-> "absent", token |-> NoToken],
     x_api_token |-> NoToken, now |-> 1, out |-> 401, passed |-> 0]
RequireAuth ==
    /\ call.passed = BagCardinality(handlers)
    /\ \A h \in Handlers : h.pc = "done"
    /\ BagCardinality(handlers) < MaxRequests
    /\ \E a \in AuthorizationHeaders, x \in ApiTokenHeaders, now \in Times :
        LET out == require_auth(a, x, now)
        IN  /\ out = 0 => call.passed < MaxPassed
            /\ Returns([fn |-> "require_auth", authorization |-> a, x_api_token |-> x,
                        now |-> now, out |-> out,
                        passed |-> call.passed + (IF out = 0 THEN 1 ELSE 0)])

\* `return f(*args, **kwargs)`: the body starts for the request that passed
Passed == call.out = 0 /\ call.passed > BagCardinality(handlers)
AuthStartProbe == Passed /\ SerialStartProbe
AuthDeleteExists == Passed /\ SerialDeleteExists
AuthClearLogCheck == Passed /\ SerialClearLogCheck

NextAuth ==
    \/ RequireAuth
    \/ AuthStartProbe
    \/ StartCommand
    \/ AuthDeleteExists
    \/ DeleteProbe
    \/ DeleteRemove
    \/ DeleteBakExists
    \/ DeleteBakRemove
    \/ AuthClearLogCheck
    \/ ClearLogTruncate

InitAuth == OtherState /\ call = NoAuth

SpecAuth == InitAuth /\ [][NextAuth]_vars

\* the names that the request supplies: the world, and copy_world's destination
SuppliedNames(q) ==
    {q.name} \cup (IF q.op = "copy_world" THEN {q.destination} ELSE {})

\* C13 as claimed: a request to create, get, delete or copy a world or to
\* create a backup that supplies a name of which sanitization leaves nothing
\* is answered 400 and has run no external command.
C13_EmptyNameIsValidationFailure ==
    \A h \in Handlers :
        (/\ h.req.op \in {"create_world", "get_world", "delete_world",
                          "copy_world", "create_backup"}
         /\ h.pc = "done"
         /\ \E n \in SuppliedNames(h.req) : n # <<>> /\ Sanitize(n) = <<>>)
            => (h.status = 400 /\ h.calls = <<>>)

\* C14: sanitization returns a result for every string, the result holds only
\* characters of [A-Za-z0-9_-], and sanitizing the result returns it unchanged.
C14_SanitizeTotalAndIdempotent ==
    (call.fn = "sanitize" /\ call.step >= 1)
        => /\ call.out \in Seq(Range(UPPER) \cup Range(LOWER) \cup Range(DIGITS) \cup {"_", "-"})
           /\ call.step = 2 => call.again = call.out

\* a string with characters of both kinds has been sanitized twice
C14_Witness ==
    /\ call.fn = "sanitize" /\ call.step = 2
    /\ call.arg = <<"a", "!", "Z">>
    /\ call.out = <<"a", "Z">>

\* the name that the parts of a parsed file name spell
Rebuild(p, ext) ==
    BackupPrefix \o p.world_name \o <<"_">> \o p.date \o <<"_">> \o p.time \o ext

\* C15: of every file name that parse_backup_filename accepts, the date is 8
\* digits, the time 6 digits, and backup_<world>_<date>_<time> followed by
\* .tar or .tar.gz is the file name itself.
C15_ParseRoundTrip ==
    (call.fn = "parse_backup_filename" /\ call.step = 1 /\ call.out.matched)
        => /\ Len(call.out.date) = 8 /\ AllDigits(call.out.date)
           /\ Len(call.out.time) = 6 /\ AllDigits(call.out.time)
           /\ \E ext \in {Tar, TarGz} : Rebuild(call.out, ext) = call.arg

\* the backups of the wanted world in the listed directory
Wanted(c) == {e \in Range(c.listing) : IsListed(e, c.world)}

\* out is the first so many of the wanted backups, newest first: it holds
\* wanted files only, none twice, in descending order of time, and no file
\* left out is newer than one returned
NewestOf(c, out) ==
    /\ \A i \in 1..Len(out) :
           \E e \in Wanted(c) :
               e.filename = out[i].filename /\ e.modified = out[i].created
    /\ \A i, j \in 1..Len(out) : out[i].filename = out[j].filename => i = j
    /\ \A i \in 1..(Len(out) - 1) : out[i].created >= out[i + 1].created
    /\ \A e \in Wanted(c) :
           (\A i \in 1..Len(out) : out[i].filename # e.filename)
               => \A i \in 1..Len(out) : out[i].created >= e.modified

C17_LogWindow ==
    (call.fn = "get_log" /\ call.step = 1 /\ call.lines >= 1)
        => LET T == Len(call.all_lines)
               w == IF call.lines > 1000 THEN 1000 ELSE call.lines
               last == IF w < T THEN w ELSE T
           IN  /\ call.out.total_lines = T
               /\ IF call.offset <= 0
                  THEN /\ call.out.selected = [i \in 1..last |-> T - last + i - 1]
                       /\ call.out.start_line = (IF T - w > 0 THEN T - w ELSE 0)
                  ELSE /\ call.out.selected =
                              [i \in 1..Cardinality({k \in call.offset..(call.offset + w - 1) : k < T})
                                  |-> call.offset + i - 1]
                       /\ call.out.start_line = call.offset

\* the last 1000 lines of a file of 1001 lines were asked for with lines=1001
C17_Witness ==
    /\ call.fn = "get_log" /\ call.step = 1
    /\ call.lines = 1001 /\ call.offset = 0 /\ Len(call.all_lines) = 1001
    /\ Len(call.out.selected) = 1000
    /\ call.out.selected[1] = 1
    /\ call.out.start_line = 1

\* C18 as claimed: a search that is answered returns at most limit results,
\* where limit is the requested one capped at 200 and whatever its value, has
\* opened no file and read no line after that many matches were collected,
\* and a file that cannot be read does not fail it.
C18_SearchStopsAtLimit ==
    (call.fn = "search_logs" /\ call.step = "done" /\ call.q # <<>>)
        => /\ call.status = 200
           /\ Len(call.results) <= call.limit
           /\ ~call.late

\* log_types of list_logs: the logical log that each file is
LogTypes ==
    [f \in LogFiles |->
        CASE f = "terraria-stdout.log" -> <<"s", "e", "r", "v", "e", "r">>
          [] f = "terraria-stderr.log" -> <<"e", "r", "r", "o", "r">>
          [] f = "supervisord.log" -> <<"s", "u", "p", "e", "r", "v", "i", "s", "o", "r">>
          [] f = "crashes.log" -> <<"c", "r", "a", "s", "h">>
          [] f = "backup.log" -> <<"b", "a", "c", "k", "u", "p">>
          [] f = "restore.log" -> <<"r", "e", "s", "t", "o", "r", "e">>
          [] OTHER -> <<"w", "o", "r", "l", "d">>]
\* log_files of get_log: the file that a name stands for
NamesLog(name, f) == name = LogTypes[f] \/ (name = <<"c", "r", "a", "s", "h", "e", "s">> /\ f = "crashes.log")

\* C19: a clear_log request that names the server, error or supervisor log, or
\* comes without confirmation, is answered 400 and has changed no file; and
\* whenever a log file changes, it is the crash, backup, restore or world log,
\* a clear_log request that named it with confirmation has just been answered
\* 200, and the file is present and empty.
C19_ClearOnlyPermittedLogs ==
    /\ [](\A h \in Handlers :
            (/\ h.req.op = "clear_log" /\ h.pc = "done"
             /\ \/ h.req.name \in {<<"s", "e", "r", "v", "e", "r">>, <<"e", "r", "r", "o", "r">>, <<"s", "u", "p", "e", "r", "v", "i", "s", "o", "r">>}
                \/ Lower(h.req.confirm) # TrueText)
                => (h.status = 400 /\ h.touched = {}))
    /\ [][\A f \in LogFiles :
            logs'[f] # logs[f]
                => /\ LogTypes[f] \in {<<"c", "r", "a", "s", "h">>, <<"b", "a", "c", "k", "u", "p">>, <<"r", "e", "s", "t", "o", "r", "e">>, <<"w", "o", "r", "l", "d">>}
                   /\ logs'[f] = LogFile(TRUE, <<>>)
                   /\ \A g \in LogFiles \ {f} : logs'[g] = logs[g]
                   /\ \E h \in BagToSet(handlers') :
                        /\ CopiesIn(h, handlers') > CopiesIn(h, handlers)
                        /\ h.req.op = "clear_log" /\ h.status = 200
                        /\ NamesLog(h.req.name, f)
                        /\ Lower(h.req.confirm) = TrueText]_vars

\* the crash log, which had a line, was cleared with confirm=TRUE, and a log
\* that did not exist was cleared: both are there and empty, the server log
\* is as it was
C19_Witness ==
    /\ \E h \in Handlers :
        /\ h.req.op = "clear_log" /\ h.req.name = <<"c", "r", "a", "s", "h">>
        /\ h.req.confirm = TrueUpper /\ h.status = 200
    /\ \E h \in Handlers :
        /\ h.req.op = "clear_log" /\ h.req.name = <<"r", "e", "s", "t", "o", "r", "e">> /\ h.status = 200
    /\ logs["crashes.log"] = LogFile(TRUE, <<>>)
    /\ logs["restore.log"] = LogFile(TRUE, <<>>)
    /\ logs["terraria-stdout.log"] = LogsAtStart["terraria-stdout.log"]

\* the command of the handler's operation did not return within its timeout
\* (run_command and run_script hand back the same triple for every exception)
TimedOut(h) ==
    /\ h.req.op \in {"start", "stop", "restart", "create_backup", "restore",
                     "cleanup", "create_world"}
    /\ h.pc = "done"
    /\ h.calls # <<>>
    /\ h.result = Failed

CreateJudged(h) ==
    /\ h.req.op = "create_world" /\ h.pc = "done"
    /\ h.calls # <<>> /\ h.seen \in {"yes", "no"}

Acted(h) == CopiesIn(h, handlers') > CopiesIn(h, handlers)

\* C22: a backup file that exists is never given another content; when one
\* goes away, the step is that of a delete_backup request for that file with
\* confirmation, which is answered 200, or that of a cleanup request. Hence
\* start, stop, restart, the world operations, clear_log, restore and every
\* request that is refused leave the backups that exist as they are.
C22_BackupsImmutable ==
    [][\A f \in BackupFiles :
        (backups[f] # Absent /\ backups'[f] # backups[f])
            => /\ backups'[f] = Absent
               /\ \E h \in BagToSet(handlers') :
                    /\ Acted(h)
                    /\ \/ /\ h.req.op = "delete_backup" /\ h.req.name = f
                          /\ Lower(h.req.confirm) = TrueText /\ h.status = 200
                       \/ h.req.op = "cleanup"]_vars

\* a restore has run and saved the world in a new backup, then the backup it
\* restored was deleted with confirmation
C22_Witness ==
    /\ \E h \in Handlers :
        /\ h.req.op = "restore" /\ h.status = 200
        /\ <<"backup", BkPreRestore>> \in h.touched
    /\ \E h \in Handlers :
        /\ h.req.op = "delete_backup" /\ h.req.name = BkAlpha /\ h.status = 200
    /\ backups[BkAlpha] = Absent
    /\ backups[BkPreRestore] # Absent

\* the world file that a copy_world or create_world request is to put in place
Destination(q) ==
    Sanitize(IF q.op = "copy_world" THEN q.destination ELSE q.name)

\* C23 as claimed: whatever the interleaving of copy_world and create_world
\* requests, the step in which copy_world writes the destination file finds no
\* file of that name; and of two requests for the same destination that have
\* been answered, at most one was answered 201.
C23_CopyNeverOverwrites ==
    /\ [][\A h \in BagToSet(handlers') :
            (Acted(h) /\ h.req.op = "copy_world" /\ h.pc = "copy_bak_exists")
                => ~WorldExists(Destination(h.req))]_vars
    /\ [](\A h, g \in Handlers :
            (/\ h.pc = "done" /\ g.pc = "done"
             /\ h # g \/ CopiesIn(h, handlers) > 1
             /\ Destination(h.req) = Destination(g.req)
             /\ h.status = 201)
                => g.status # 201)

BackupsIn(dir) == {f \in DOMAIN dir : parse_backup_filename(f).matched}
ShownIn(c) == {c.out[i].filename : i \in 1..Len(c.out)}

\* C25 as claimed: the list that create_backup returns has at most 5 backups,
\* no backup left out of it is newer than a listed one, and the backup that is
\* newer than every other file of the directory is in the list.
C25_NewestAreListed ==
    (call.fn = "new_backups" /\ call.step = 2)
        => /\ Len(call.out) <= ShownBackups
           /\ \A f \in ShownIn(call), g \in BackupsIn(call.dir) \ ShownIn(call) :
                call.dir[f] >= call.dir[g]
           /\ \A g \in BackupsIn(call.dir) :
                (\A f \in DOMAIN call.dir \ {g} : call.dir[g] > call.dir[f])
                    => g \in ShownIn(call)

\* the tokens that the request at the decorator carries in its headers
Carried(c) ==
    (IF c.authorization.scheme = "Bearer" THEN {c.authorization.token} ELSE {})
        \cup {c.x_api_token}
GoodToken(t, now) == t.kind = "signed" /\ t.exp > now
files == <<alive, environ, wld, bak, backups, logs>>

\* C26: a handler body starts only for a request that carries a token signed
\* with the key and not expired at that time; a request that carries no such
\* token is answered 401, and the step that answers 401 starts no handler (so
\* runs no command) and changes no file and no setting.
C26_OnlyWithToken ==
    /\ [][BagCardinality(handlers') > BagCardinality(handlers)
            => \E t \in Carried(call) : GoodToken(t, call.now)]_vars
    /\ [][(call' # call /\ ~\E t \in Carried(call') : GoodToken(t, call'.now))
            => /\ call'.out = 401
               /\ UNCHANGED <<files, handlers>>]_vars

\* a request with an expired token was turned away after another had deleted
\* the world
C26_Witness ==
    /\ call.out = 401
    /\ call.authorization.scheme = "Bearer"
    /\ call.authorization.token.kind = "signed"
    /\ call.authorization.token.exp = call.now
    /\ \E h \in Handlers : h.req.op = "delete_world" /\ h.status = 200

C28_FailureChangesNothing ==
    \A h \in Handlers :
        (/\ h.req.op \in {"delete_world", "copy_world"}
         /\ h.pc = "done" /\ h.status >= 400)
            => h.touched = {}

\* 'lines_returned': len(selected_lines), 'end_line': start_line + len(selected_lines)
LinesReturned(out) == Len(out.selected)
EndLine(out) == out.start_line + Len(out.selected)

\* C29 as claimed: whatever ?lines= and ?offset= are, get_log returns no more
\* lines than were asked for, end_line is start_line plus the number of lines
\* returned, and 0 <= start_line <= end_line <= total_lines.
C29_WindowWithinFile ==
    (call.fn = "get_log" /\ call.step = 1)
        => /\ LinesReturned(call.out) <= call.lines
           /\ EndLine(call.out) = call.out.start_line + LinesReturned(call.out)
           /\ 0 <= call.out.start_line
           /\ call.out.start_line <= EndLine(call.out)
           /\ EndLine(call.out) <= call.out.total_lines

\* C30 as claimed: when PUT /api/config has set an integer setting to n and
\* answered 200, the GET /api/config that follows reports that setting as n
\* brought into the setting's range.
C30_GetReportsUpdate ==
    [][(/\ call.fn = "update_config" /\ call.status = 200
        /\ call'.fn = "get_config")
            => call'.server[call.key] =
                 Clamp(call.value.v, allowed_updates[call.key].min_val,
                       allowed_updates[call.key].max_val)]_vars

====
